---- MODULE Spec2Model ----
(***************************************************************************)
(* Model of the precise citation-to-text matching and highlighting engine  *)
(* of the clinical data extractor (src/App.tsx): the text index built on   *)
(* document load, searchForCitedText / findItemsForCharRange, and          *)
(* buildPreciseHighlights with the effect that rebuilds the highlight map; *)
(* the extraction results and the mappings read from them; the paper       *)
(* store with its history (IndexedDB service) and the handlers that save,  *)
(* switch, delete and undo; the auto-save effect with its timeout and the  *)
(* extraction awaited by startExtraction; the API key settings and their   *)
(* two storages; inferFieldPath, the fallback cascade of runExtraction and *)
(* the enrichment of a tool output with citations (extraction service).    *)
(*                                                                         *)
(* A JavaScript string is a sequence of one-character strings.  The        *)
(* characters used are ASCII letters, digits, '.' and the whitespace       *)
(* characters space and tab; on these String.prototype.toLowerCase maps    *)
(* character by character.                                                 *)
(***************************************************************************)
EXTENDS Integers, Sequences, FiniteSets, TLC

\* ------------------------------------------------------------------------
\* Bounds of the explored inputs
\* ------------------------------------------------------------------------

\* longest document, in pages, assembled from the page pool
MaxDocPages == 2

\* most characters cut from either end of a fragment-aligned citation
MaxCut == 1

\* longest run of padding whitespace put in front of a citation
MaxPad == 1

\* most mappings handed to one build of the highlight map
MaxMappings == 2

\* most paper ids generated
MaxPapers == 2

\* most entries in the history store
MaxHistory == 1

\* the most phrases in a context text handed to inferFieldPath
MaxContextWords == 2

\* at most so many calls of saveApiKey await their validation at once
MaxPendingSaves == 2

\* the most citations in the text blocks of a response
MaxCitations == 2

\* ------------------------------------------------------------------------
\* Program constants
\* ------------------------------------------------------------------------

\* query.length < 12 is rejected
MinQueryLength == 12

\* the citation key takes the first 50 characters of the cited text
CitationKeyLength == 50

\* a match over more than 5 text items is rejected
MaxMatchItems == 5

\* only the first 10 pages of a document are indexed
MaxIndexedPages == 10

\* hintPage === undefined / null
NoPage == -1

\* the null result of searchForCitedText
Null == [isNull |-> TRUE]

\* ------------------------------------------------------------------------
\* JavaScript string primitives
\* ------------------------------------------------------------------------

UpperChars == <<"A","B","C","D","E","F","G","H","I","J","K","L","M",
                "N","O","P","Q","R","S","T","U","V","W","X","Y","Z">>

LowerChars == <<"a","b","c","d","e","f","g","h","i","j","k","l","m",
                "n","o","p","q","r","s","t","u","v","w","x","y","z">>

Digits == {"0","1","2","3","4","5","6","7","8","9"}

\* the characters matched by \s (and removed by trim) among those modelled
WhiteSpace == {" ", "\t"}

\* the lower-case form of every upper-case letter
LowerOf ==
  [c \in {UpperChars[i] : i \in 1..26} |->
     LowerChars[CHOOSE i \in 1..26 : UpperChars[i] = c]]

ToLowerChar(c) == IF c \in DOMAIN LowerOf THEN LowerOf[c] ELSE c

\* String.prototype.toLowerCase
ToLowerCase(s) == [i \in 1..Len(s) |-> ToLowerChar(s[i])]

RECURSIVE TrimStart(_)
TrimStart(s) ==
  IF s # <<>> /\ Head(s) \in WhiteSpace THEN TrimStart(Tail(s)) ELSE s

RECURSIVE TrimEnd(_)
TrimEnd(s) ==
  IF s # <<>> /\ s[Len(s)] \in WhiteSpace
    THEN TrimEnd(SubSeq(s, 1, Len(s) - 1))
    ELSE s

\* String.prototype.trim
Trim(s) == TrimEnd(TrimStart(s))

\* s.replace(/\s+/g, ' '): every maximal run of whitespace becomes one space
RECURSIVE CollapseWhitespace(_)
CollapseWhitespace(s) ==
  IF s = <<>> THEN <<>>
  ELSE IF Head(s) \in WhiteSpace
    THEN <<" ">> \o CollapseWhitespace(TrimStart(s))
    ELSE <<Head(s)>> \o CollapseWhitespace(Tail(s))

\* /^\d+\.?\d*$/.test(s)
RECURSIVE AllDigits(_)
AllDigits(s) == s = <<>> \/ (Head(s) \in Digits /\ AllDigits(Tail(s)))

RECURSIVE SkipDigits(_)
SkipDigits(s) ==
  IF s # <<>> /\ Head(s) \in Digits THEN SkipDigits(Tail(s)) ELSE s

IsNumericRegex(s) ==
  LET rest == SkipDigits(s)
  IN  /\ Len(rest) < Len(s)
      /\ \/ rest = <<>>
         \/ Head(rest) = "." /\ AllDigits(Tail(rest))

\* Array.prototype.join(' ')
RECURSIVE JoinWithSpace(_)
JoinWithSpace(texts) ==
  IF texts = <<>> THEN <<>>
  ELSE IF Len(texts) = 1 THEN texts[1]
  ELSE texts[1] \o <<" ">> \o JoinWithSpace(Tail(texts))

\* String.prototype.indexOf, 0-based, -1 when absent
StartsWithAt(hay, needle, i) ==
  \A k \in 1..Len(needle) : hay[i + k] = needle[k]

RECURSIVE IndexOfFrom(_, _, _)
IndexOfFrom(hay, needle, i) ==
  IF i + Len(needle) > Len(hay) THEN -1
  ELSE IF StartsWithAt(hay, needle, i) THEN i
  ELSE IndexOfFrom(hay, needle, i + 1)

\* lastIndexOf in the place of indexOf
MutLastIndexOf(hay, needle) ==
  LET hits == {i \in 0..(Len(hay) - Len(needle)) : StartsWithAt(hay, needle, i)}
  IN  IF hits = {} THEN -1
      ELSE CHOOSE i \in hits : \A j \in hits : j <= i

IndexOf(hay, needle) == IndexOfFrom(hay, needle, 0)

\* ------------------------------------------------------------------------
\* Text index (handleFileChange)
\* ------------------------------------------------------------------------

\* A document is the sequence of its pages, a page the sequence of the str
\* of its textContent.items, in renderer order.  TextPosition.x and .y are
\* passed through from the renderer's transform and read by no code modelled
\* here; they are left out.
TextPosition(pageNum, idx, text, charOffset) ==
  [pageNum        |-> pageNum,
   itemIndex      |-> idx,
   text           |-> text,
   normalizedText |-> Trim(ToLowerCase(text)),
   charStart      |-> charOffset,
   charEnd        |-> charOffset + Len(text)]

\* items without text skipped instead of indexed
RECURSIVE MutIndexItemsSkipEmpty(_, _, _, _)
MutIndexItemsSkipEmpty(items, pageNum, idx, charOffset) ==
  IF idx >= Len(items) THEN <<  <<>>, charOffset >>
  ELSE LET text == items[idx + 1]
           rest == MutIndexItemsSkipEmpty(items, pageNum, idx + 1,
                     IF text = <<>> THEN charOffset
                     ELSE charOffset + Len(text) + 1)
       IN  << (IF text = <<>> THEN <<>>
               ELSE <<TextPosition(pageNum, idx, text, charOffset)>>)
              \o rest[1],
              rest[2] >>

\* textContent.items.forEach((item, idx) => { newTextIndex.push(...);
\*   charOffset += text.length + 1 }) from item idx on; the result is
\* <<the positions pushed, the charOffset afterwards>>
RECURSIVE IndexItems(_, _, _, _)
IndexItems(items, pageNum, idx, charOffset) ==
  IF idx >= Len(items) THEN <<  <<>>, charOffset >>
  ELSE LET text == items[idx + 1]
           rest == IndexItems(items, pageNum, idx + 1,
                              charOffset + Len(text) + 1)
       IN  << <<TextPosition(pageNum, idx, text, charOffset)>> \o rest[1],
              rest[2] >>

Min(a, b) == IF a <= b THEN a ELSE b

\* the character offset restarted on every page
RECURSIVE MutIndexPagesRestart(_, _, _)
MutIndexPagesRestart(doc, i, charOffset) ==
  IF i > Min(Len(doc), MaxIndexedPages) THEN <<>>
  ELSE IndexItems(doc[i], i, 0, 0)[1] \o MutIndexPagesRestart(doc, i + 1, 0)

\* for (let i = 1; i <= Math.min(pdf.numPages, 10); i++) { ... } from page i on
RECURSIVE IndexPages(_, _, _)
IndexPages(doc, i, charOffset) ==
  IF i > Min(Len(doc), MaxIndexedPages) THEN <<>>
  ELSE LET page == IndexItems(doc[i], i, 0, charOffset)
       IN  page[1] \o IndexPages(doc, i + 1, page[2])

\* the newTextIndex that handleFileChange hands to setTextIndex
BuildTextIndex(doc) == IndexPages(doc, 1, 0)

\* ------------------------------------------------------------------------
\* Citation matcher (searchForCitedText, findItemsForCharRange)
\* ------------------------------------------------------------------------

\* the span ceiling forgotten
MutNoSpanCeiling(itemIndices) == Len(itemIndices) > 0

\* the span ceiling one item too high
MutSpanCeilingOffByOne(itemIndices) ==
  Len(itemIndices) > 0 /\ Len(itemIndices) <= MaxMatchItems + 1

\* the loop body's overlap test: itemEnd > startChar && itemStart < endChar
ItemOverlaps(itemStart, itemEnd, startChar, endChar) ==
  itemEnd > startChar /\ itemStart < endChar

\* the for-loop of findItemsForCharRange from currentChar on
RECURSIVE ScanItems(_, _, _, _)
ScanItems(pageItems, currentChar, startChar, endChar) ==
  IF pageItems = <<>> THEN <<>>
  ELSE LET item      == Head(pageItems)
           itemStart == currentChar
           itemEnd   == currentChar + Len(item.text)
       IN  (IF ItemOverlaps(itemStart, itemEnd, startChar, endChar)
              THEN <<item.itemIndex>> ELSE <<>>)
           \o ScanItems(Tail(pageItems), itemEnd + 1, startChar, endChar)

findItemsForCharRange(pageItems, startChar, endChar) ==
  ScanItems(pageItems, 0, startChar, endChar)

\* the page filter forgotten: every page's items are searched
MutPageItemsAll(index, hintPage) == index

\* textIndex.filter(t => t.pageNum === hintPage)
PageItemsOf(index, hintPage) ==
  SelectSeq(index, LAMBDA t : t.pageNum = hintPage)

\* pageItems.map(t => t.text)
RECURSIVE TextsOf(_)
TextsOf(items) ==
  IF items = <<>> THEN <<>> ELSE <<Head(items).text>> \o TextsOf(Tail(items))

\* query.toLowerCase().trim().replace(/\s+/g, ' ')
NormalizeQuery(query) == CollapseWhitespace(Trim(ToLowerCase(query)))

\* the page text left in its original case
MutPageTextNotLowered(pageItems) == JoinWithSpace(TextsOf(pageItems))

\* pageTexts.join(' ').toLowerCase()
NormalizedPageText(pageItems) == ToLowerCase(JoinWithSpace(TextsOf(pageItems)))

\* the length floor forgotten
MutNoLengthFloor(index, query) == query = <<>> \/ Len(index) = 0

\* !query || query.length < 12 || textIndex.length === 0
RejectsEarly(index, query) ==
  query = <<>> \/ Len(query) < MinQueryLength \/ Len(index) = 0

\* the number test applied to the untrimmed query
MutNumberUntrimmed(query) == IsNumericRegex(query)

\* /^\d+\.?\d*$/.test(query.trim())
RejectsNumber(query) == IsNumericRegex(Trim(query))

\* !hintPage: undefined, null and 0 are falsy
RejectsHintPage(hintPage) == hintPage = NoPage \/ hintPage = 0

\* itemIndices.length > 0 && itemIndices.length <= 5
AcceptsItemCount(itemIndices) ==
  Len(itemIndices) > 0 /\ Len(itemIndices) <= MaxMatchItems

\* a search that, given no hint page, falls back to the first page
MutSearchHopsPages(index, query, hintPage) ==
  IF RejectsEarly(index, query) THEN Null
  ELSE IF RejectsNumber(query) THEN Null
  ELSE LET page               == IF RejectsHintPage(hintPage) THEN 1
                                 ELSE hintPage
           normalizedQuery    == NormalizeQuery(query)
           pageItems          == PageItemsOf(index, page)
           normalizedPageText == NormalizedPageText(pageItems)
           matchIndex         == IndexOf(normalizedPageText, normalizedQuery)
           itemIndices        ==
             findItemsForCharRange(pageItems, matchIndex,
                                   matchIndex + Len(normalizedQuery))
       IN  IF pageItems = <<>> THEN Null
           ELSE IF matchIndex # -1 /\ AcceptsItemCount(itemIndices)
             THEN [pageNum     |-> page,
                   itemIndices |-> itemIndices,
                   exactMatch  |-> TRUE,
                   confidence  |-> 1]
             ELSE Null

\* searchForCitedText with the textIndex it closes over
searchForCitedText(index, query, hintPage) ==
  IF RejectsEarly(index, query) THEN Null
  ELSE IF RejectsNumber(query) THEN Null
  ELSE IF RejectsHintPage(hintPage) THEN Null
  ELSE LET normalizedQuery    == NormalizeQuery(query)
           pageItems          == PageItemsOf(index, hintPage)
           normalizedPageText == NormalizedPageText(pageItems)
           matchIndex         == IndexOf(normalizedPageText, normalizedQuery)
           itemIndices        ==
             findItemsForCharRange(pageItems, matchIndex,
                                   matchIndex + Len(normalizedQuery))
       IN  IF pageItems = <<>> THEN Null
           ELSE IF matchIndex # -1 /\ AcceptsItemCount(itemIndices)
             THEN [pageNum     |-> hintPage,
                   itemIndices |-> itemIndices,
                   exactMatch  |-> TRUE,
                   confidence  |-> 1]
             ELSE Null

\* ------------------------------------------------------------------------
\* Highlight map (buildPreciseHighlights and the effect that rebuilds it)
\* ------------------------------------------------------------------------

\* new Map<string, PreciseHighlight>(); the key `${pageNum}-${itemIdx}` of two
\* non-negative integers is modelled by the pair <<pageNum, itemIdx>>
EmptyHighlights == [k \in {} |-> Null]

\* mapping.citedText || mapping.text; an absent citedText and an empty one
\* are both falsy and both modelled by the empty string
SearchQueryOf(mapping) ==
  IF mapping.citedText # <<>> THEN mapping.citedText ELSE mapping.text

\* !searchQuery || searchQuery.length < 2
SkipsMapping(mapping) ==
  SearchQueryOf(mapping) = <<>> \/ Len(SearchQueryOf(mapping)) < 2

\* only the first matched item gets an entry
MutSetFirstItemOnly(highlights, mapping, match) ==
  LET keys == {<<match.pageNum, match.itemIndices[1]>>}
  IN  [k \in (DOMAIN highlights) \cup keys |->
         IF k \in keys
           THEN [pageNum   |-> match.pageNum,
                 itemIndex |-> k[2],
                 path      |-> mapping.path,
                 verified  |-> mapping.verified,
                 citedText |-> IF mapping.citedText # <<>>
                                 THEN mapping.citedText ELSE mapping.text]
           ELSE highlights[k]]

\* an entry that exists is not overwritten
MutSetKeepsFirstWriter(highlights, mapping, match) ==
  LET keys == {<<match.pageNum, match.itemIndices[i]>> :
                 i \in 1..Len(match.itemIndices)}
  IN  [k \in (DOMAIN highlights) \cup keys |->
         IF k \in DOMAIN highlights THEN highlights[k]
         ELSE [pageNum   |-> match.pageNum,
               itemIndex |-> k[2],
               path      |-> mapping.path,
               verified  |-> mapping.verified,
               citedText |-> IF mapping.citedText # <<>>
                               THEN mapping.citedText ELSE mapping.text]]

\* for (const itemIdx of match.itemIndices) highlights.set(key, {...})
SetHighlights(highlights, mapping, match) ==
  LET keys == {<<match.pageNum, match.itemIndices[i]>> :
                 i \in 1..Len(match.itemIndices)}
  IN  [k \in (DOMAIN highlights) \cup keys |->
         IF k \in keys
           THEN [pageNum   |-> match.pageNum,
                 itemIndex |-> k[2],
                 path      |-> mapping.path,
                 verified  |-> mapping.verified,
                 citedText |-> SearchQueryOf(mapping)]
           ELSE highlights[k]]

\* an unmatched mapping throws the highlights built so far away
MutStepClearsOnNull(index, highlights, mapping) ==
  IF SkipsMapping(mapping) THEN highlights
  ELSE LET match == searchForCitedText(index, SearchQueryOf(mapping),
                                       mapping.page)
       IN  IF match # Null THEN SetHighlights(highlights, mapping, match)
           ELSE EmptyHighlights

\* one iteration of for (const mapping of mappingItems)
HighlightStep(index, highlights, mapping) ==
  IF SkipsMapping(mapping) THEN highlights
  ELSE LET match == searchForCitedText(index, SearchQueryOf(mapping),
                                       mapping.page)
       IN  IF match # Null THEN SetHighlights(highlights, mapping, match)
           ELSE highlights

RECURSIVE HighlightLoop(_, _, _)
HighlightLoop(index, mappingItems, highlights) ==
  IF mappingItems = <<>> THEN highlights
  ELSE HighlightLoop(index, Tail(mappingItems),
                     HighlightStep(index, highlights, Head(mappingItems)))

\* buildPreciseHighlights with the textIndex its searchForCitedText closes over
buildPreciseHighlights(index, mappingItems) ==
  HighlightLoop(index, mappingItems, EmptyHighlights)

\* ------------------------------------------------------------------------
\* Extraction results and their mappings (getMappings, mapSelectedToField)
\* ------------------------------------------------------------------------

\* An ExtractionResults tree is held as the sequence of its nodes that carry
\* a source_location, in the order traverse visits them: first the nodes of
\* the form's sections (fields), then the elements of
\* extractionLog.extracted_data, the last key of the form.  An absent string
\* (cited_text, exact_text_reference) is the empty string, an absent page is
\* NoPage; content is held as String(content) next to typeof content.
Node(path, content, page, cited_text, exact_text_reference, verified) ==
  [path                 |-> path,
   contentType          |-> "string",
   content              |-> content,
   page                 |-> page,
   cited_text           |-> cited_text,
   exact_text_reference |-> exact_text_reference,
   citation_verified    |-> verified]

\* useState<ExtractionResults | null>(null)
NoResults == [isNull |-> TRUE, fields |-> <<>>, extracted_data |-> <<>>]

\* the baseResults of mapSelectedToField when there were no results: every
\* section empty
EmptyResults == [isNull |-> FALSE, fields |-> <<>>, extracted_data |-> <<>>]

\* `${path}.${key}` for element i of extractionLog.extracted_data
LogPaths ==
  << "extractionLog.extracted_data.0", "extractionLog.extracted_data.1",
     "extractionLog.extracted_data.2", "extractionLog.extracted_data.3" >>

\* the node with a content that is no string: a number, a boolean, or no
\* content at all
WithContent(node, type, content) ==
  [node EXCEPT !.contentType = type, !.content = content]

\* the truthiness of obj.content: '' is falsy, of the numbers 0 and NaN
\* are, of the booleans false is, and undefined is
Truthy(obj) ==
  CASE obj.contentType = "string"  -> obj.content # <<>>
    [] obj.contentType = "number"  ->
         obj.content \notin {<<"0">>, <<"N", "a", "N">>}
    [] obj.contentType = "boolean" -> obj.content = <<"t", "r", "u", "e">>
    [] OTHER                       -> FALSE

\* every located node counts, whatever its content
MutAnyContent(obj) == obj.page # NoPage /\ obj.page # 0

\* obj.source_location?.page && obj.content
HasLocation(obj) ==
  obj.page # NoPage /\ obj.page # 0 /\ Truthy(obj)

\* the MappingItem traverse pushes for a located node; label and type are
\* read by no code modelled here and are left out
MappingOf(obj, path) ==
  [page      |-> obj.page,
   text      |-> IF obj.cited_text # <<>> THEN obj.cited_text
                 ELSE IF obj.exact_text_reference # <<>>
                   THEN obj.exact_text_reference
                   ELSE obj.content,
   path      |-> path,
   verified  |-> obj.citation_verified,
   citedText |-> obj.cited_text]

\* traverse over the nodes of the form's sections
RECURSIVE TraverseFields(_)
TraverseFields(fields) ==
  IF fields = <<>> THEN <<>>
  ELSE (IF HasLocation(Head(fields))
          THEN <<MappingOf(Head(fields), Head(fields).path)>> ELSE <<>>)
       \o TraverseFields(Tail(fields))

\* traverse over extractionLog.extracted_data from element i on
RECURSIVE TraverseLog(_, _)
TraverseLog(entries, i) ==
  IF entries = <<>> THEN <<>>
  ELSE (IF HasLocation(Head(entries))
          THEN <<MappingOf(Head(entries), LogPaths[i + 1])>> ELSE <<>>)
       \o TraverseLog(Tail(entries), i + 1)

\* getMappings with the results it closes over
getMappings(res) ==
  IF res.isNull THEN <<>>
  ELSE TraverseFields(res.fields) \o TraverseLog(res.extracted_data, 0)

\* the place of a path's section among the keys of the form:
\* studyId, picoT, baseline, imaging, interventions, studyArms, outcomes,
\* complications, extractionLog
SectionRank(path) ==
  CASE path = "studyId.doi"                -> 1
    [] path = "baseline.sampleSize.totalN" -> 3
    [] path = "outcomes.mortality"         -> 7
    [] OTHER                               -> 8

\* current[lastKey] = {...}: an existing key keeps its place, a new key is
\* the last of its section
RECURSIVE PutField(_, _)
PutField(fields, field) ==
  IF fields = <<>> THEN <<field>>
  ELSE IF Head(fields).path = field.path THEN <<field>> \o Tail(fields)
  ELSE IF SectionRank(Head(fields).path) > SectionRank(field.path)
            /\ \A i \in DOMAIN fields : fields[i].path # field.path
         THEN <<field>> \o fields
  ELSE <<Head(fields)>> \o PutField(Tail(fields), field)

\* the newResults that mapSelectedToField hands to setResults for the
\* previous results prev
mapSelectedToField(prev, path, selectedText) ==
  LET baseResults == IF prev.isNull THEN EmptyResults ELSE prev
  IN  [isNull |-> FALSE,
       fields |-> PutField(baseResults.fields,
                    Node(path, selectedText.text, selectedText.page,
                         <<>>, selectedText.text, FALSE)),
       extracted_data |->
         << Node(path, selectedText.text, selectedText.page,
                 <<>>, <<>>, FALSE) >>
         \o baseResults.extracted_data]

\* ------------------------------------------------------------------------
\* Paper store (IndexedDB service)
\* ------------------------------------------------------------------------

\* A StoredPaper is held with its id, pdfBase64 and extractionResults;
\* fileName, the dates and the metadata are written and never read by the
\* code modelled here.  An object store is a function from the keys of its
\* records; the history store is the sequence of its entries, oldest first.
StoredPaper(id, base64, res) ==
  [id |-> id, pdfBase64 |-> base64, extractionResults |-> res]

\* store.put(paper)
savePaper(store, paper) ==
  [id \in (DOMAIN store) \cup {paper.id} |->
     IF id = paper.id THEN paper ELSE store[id]]

\* papersStore.delete(id)
deletePaper(store, id) == [k \in (DOMAIN store) \ {id} |-> store[k]]

\* the cursor of deletePaper over the history index: every entry of the
\* paper is deleted
deleteHistory(entries, id) ==
  SelectSeq(entries, LAMBDA e : e.paperId # id)

\* the entry updatePaperResults adds for a paper as it is stored
HistoryEntry(paper, res) ==
  [paperId       |-> paper.id,
   previousState |-> paper.extractionResults,
   currentState  |-> res]

\* updatePaperResults for a paper that is stored: <<papers, history>>
\* afterwards
updatePaperResults(store, entries, id, res) ==
  << savePaper(store, [store[id] EXCEPT !.extractionResults = res]),
     Append(entries, HistoryEntry(store[id], res)) >>

\* the places in the history store of a paper's entries
EntriesOf(entries, paperId) ==
  {i \in DOMAIN entries : entries[i].paperId = paperId}

\* history[0] of getPaperHistory: the paper's entry with the latest timestamp
LastEntry(entries, paperId) ==
  CHOOSE i \in EntriesOf(entries, paperId) :
     \A j \in EntriesOf(entries, paperId) : j <= i

\* historyStore.delete(lastEntry.id)
RemoveAt(entries, i) ==
  SubSeq(entries, 1, i - 1) \o SubSeq(entries, i + 1, Len(entries))

\* undoLastChange returns null and changes nothing
UndoReturnsNull(store, entries, paperId) ==
  \/ EntriesOf(entries, paperId) = {}
  \/ entries[LastEntry(entries, paperId)].previousState.isNull
  \/ paperId \notin DOMAIN store

\* ------------------------------------------------------------------------
\* Extraction service: field path inference
\* ------------------------------------------------------------------------

\* the characters of the texts the rules and the explored contexts are
\* written with
Chars ==
     "author" :> <<"a","u","t","h","o","r">>
  @@ "citation" :> <<"c","i","t","a","t","i","o","n">>
  @@ "doi" :> <<"d","o","i">>
  @@ "pmid" :> <<"p","m","i","d">>
  @@ "journal" :> <<"j","o","u","r","n","a","l">>
  @@ "year" :> <<"y","e","a","r">>
  @@ "published" :> <<"p","u","b","l","i","s","h","e","d">>
  @@ "country" :> <<"c","o","u","n","t","r","y">>
  @@ "countries" :> <<"c","o","u","n","t","r","i","e","s">>
  @@ "sample size" :> <<"s","a","m","p","l","e"," ","s","i","z","e">>
  @@ "total n" :> <<"t","o","t","a","l"," ","n">>
  @@ "patients enrolled" :> <<"p","a","t","i","e","n","t","s"," ","e","n","r","o","l","l","e","d">>
  @@ "surgical" :> <<"s","u","r","g","i","c","a","l">>
  @@ "n " :> <<"n"," ">>
  @@ "control" :> <<"c","o","n","t","r","o","l">>
  @@ "age" :> <<"a","g","e">>
  @@ "mean" :> <<"m","e","a","n">>
  @@ "median" :> <<"m","e","d","i","a","n">>
  @@ "male" :> <<"m","a","l","e">>
  @@ "female" :> <<"f","e","m","a","l","e">>
  @@ "nihss" :> <<"n","i","h","s","s">>
  @@ "gcs" :> <<"g","c","s">>
  @@ "mrs" :> <<"m","r","s">>
  @@ "outcome" :> <<"o","u","t","c","o","m","e">>
  @@ "population" :> <<"p","o","p","u","l","a","t","i","o","n">>
  @@ "inclusion" :> <<"i","n","c","l","u","s","i","o","n">>
  @@ "eligib" :> <<"e","l","i","g","i","b">>
  @@ "intervention" :> <<"i","n","t","e","r","v","e","n","t","i","o","n">>
  @@ "type" :> <<"t","y","p","e">>
  @@ "comparator" :> <<"c","o","m","p","a","r","a","t","o","r">>
  @@ "control group" :> <<"c","o","n","t","r","o","l"," ","g","r","o","u","p">>
  @@ "measure" :> <<"m","e","a","s","u","r","e">>
  @@ "follow" :> <<"f","o","l","l","o","w">>
  @@ "up" :> <<"u","p">>
  @@ "study type" :> <<"s","t","u","d","y"," ","t","y","p","e">>
  @@ "design" :> <<"d","e","s","i","g","n">>
  @@ "mortality" :> <<"m","o","r","t","a","l","i","t","y">>
  @@ "death" :> <<"d","e","a","t","h">>
  @@ "complication" :> <<"c","o","m","p","l","i","c","a","t","i","o","n">>
  @@ "adverse" :> <<"a","d","v","e","r","s","e">>
  @@ "n" :> <<"n">>
  @@ "patients" :> <<"p","a","t","i","e","n","t","s">>

\* String.prototype.includes with a literal argument
includes(s, literal) == IndexOf(s, Chars[literal]) # -1

\* the chain of if statements of inferFieldPath over the lower-cased context
InferFromLowerContext(lowerContext) ==
  IF includes(lowerContext, "author") \/ includes(lowerContext, "citation")
    THEN "studyId.citation"
  ELSE IF includes(lowerContext, "doi")
    THEN "studyId.doi"
  ELSE IF includes(lowerContext, "pmid")
    THEN "studyId.pmid"
  ELSE IF includes(lowerContext, "journal")
    THEN "studyId.journal"
  ELSE IF includes(lowerContext, "year")
          \/ includes(lowerContext, "published")
    THEN "studyId.year"
  ELSE IF includes(lowerContext, "country")
          \/ includes(lowerContext, "countries")
    THEN "studyId.country"
  ELSE IF includes(lowerContext, "sample size")
          \/ includes(lowerContext, "total n")
          \/ includes(lowerContext, "patients enrolled")
    THEN "baseline.sampleSize.totalN"
  ELSE IF includes(lowerContext, "surgical") /\ includes(lowerContext, "n ")
    THEN "baseline.sampleSize.surgicalN"
  ELSE IF includes(lowerContext, "control") /\ includes(lowerContext, "n ")
    THEN "baseline.sampleSize.controlN"
  ELSE IF includes(lowerContext, "age") /\ includes(lowerContext, "mean")
    THEN "baseline.age.mean"
  ELSE IF includes(lowerContext, "age") /\ includes(lowerContext, "median")
    THEN "baseline.age.median"
  ELSE IF includes(lowerContext, "male")
    THEN "baseline.gender.maleN"
  ELSE IF includes(lowerContext, "female")
    THEN "baseline.gender.femaleN"
  ELSE IF includes(lowerContext, "nihss")
    THEN "baseline.clinicalScores.nihssMeanOrMedian"
  ELSE IF includes(lowerContext, "gcs")
    THEN "baseline.clinicalScores.gcsMeanOrMedian"
  ELSE IF includes(lowerContext, "mrs") /\ ~includes(lowerContext, "outcome")
    THEN "baseline.clinicalScores.prestrokeMRS"
  ELSE IF includes(lowerContext, "population")
          \/ includes(lowerContext, "inclusion")
          \/ includes(lowerContext, "eligib")
    THEN "picoT.population"
  ELSE IF includes(lowerContext, "intervention")
          /\ ~includes(lowerContext, "type")
    THEN "picoT.intervention"
  ELSE IF includes(lowerContext, "comparator")
          \/ includes(lowerContext, "control group")
    THEN "picoT.comparator"
  ELSE IF includes(lowerContext, "outcome")
          /\ includes(lowerContext, "measure")
    THEN "picoT.outcomesMeasured"
  ELSE IF includes(lowerContext, "follow") /\ includes(lowerContext, "up")
    THEN "picoT.timingFollowUp"
  ELSE IF includes(lowerContext, "study type")
          \/ includes(lowerContext, "design")
    THEN "picoT.studyType"
  ELSE IF includes(lowerContext, "mortality")
          \/ includes(lowerContext, "death")
    THEN "outcomes.mortality"
  ELSE IF includes(lowerContext, "mrs") /\ includes(lowerContext, "outcome")
    THEN "outcomes.mrs"
  ELSE IF includes(lowerContext, "complication")
          \/ includes(lowerContext, "adverse")
    THEN "complications.items"
  ELSE "extractionLog.extracted_data"

\* the rule of mortality looked at before every other rule
MutInferMortalityFirst(context) ==
  LET lowerContext == ToLowerCase(context)
  IN  IF includes(lowerContext, "mortality") \/ includes(lowerContext, "death")
        THEN "outcomes.mortality"
        ELSE InferFromLowerContext(lowerContext)

\* inferFieldPath(context)
inferFieldPath(context) == InferFromLowerContext(ToLowerCase(context))

\* ------------------------------------------------------------------------
\* Extraction service: runExtraction and its strategies
\* ------------------------------------------------------------------------

\* an optional argument that was left out
Undefined == [given |-> FALSE, value |-> <<>>]

\* an optional argument that was passed
Given(value) == [given |-> TRUE, value |-> value]

\* if (pageTexts && pageTexts.length > 0)
UsesSearchResults(pageTexts) == pageTexts.given /\ Len(pageTexts.value) > 0

\* if (pdfBase64): the empty string is falsy
UsesTwoPass(pdfBase64) == pdfBase64.given /\ pdfBase64.value # <<>>

\* what a strategy function comes back with
Returned(value) == [threw |-> FALSE, value |-> value]

Thrown == [threw |-> TRUE, value |-> NoResults]

\* String(n) for a page number
DecimalDigits == <<"0","1","2","3","4","5","6","7","8","9">>

RECURSIVE DecimalString(_)
DecimalString(n) ==
  IF n < 10 THEN <<DecimalDigits[n + 1]>>
  ELSE DecimalString(n \div 10) \o <<DecimalDigits[(n % 10) + 1]>>

\* `page-${page}`: the source of the search result of a page, and the
\* pageKey of enrichExtractionWithSearchCitations
PageSource(page) == <<"p","a","g","e","-">> \o DecimalString(page)

\* a citation of a text block: its source and its cited_text
Citation(source, cited_text) == [source |-> source, cited_text |-> cited_text]

\* `${citation.source}:${citation.cited_text.substring(0, 50)}`
CitationKey(citation) ==
  citation.source \o <<":">>
    \o SubSeq(citation.cited_text, 1,
              IF Len(citation.cited_text) < CitationKeyLength
                THEN Len(citation.cited_text) ELSE CitationKeyLength)

\* Map.prototype.set: the value of a key that is there is replaced in its
\* place, a new key comes last
MapSet(map, key, value) ==
  IF \E i \in DOMAIN map : map[i].key = key
    THEN [i \in DOMAIN map |->
            IF map[i].key = key THEN [key |-> key, value |-> value]
            ELSE map[i]]
    ELSE Append(map, [key |-> key, value |-> value])

\* the citationsMap collected from the citations of the response, in their
\* order
RECURSIVE CollectCitations(_, _)
CollectCitations(citations, map) ==
  IF citations = <<>> THEN map
  ELSE CollectCitations(Tail(citations),
                        MapSet(map, CitationKey(Head(citations)),
                               Head(citations).cited_text))

\* String.prototype.startsWith
StartsWith(s, prefix) ==
  Len(prefix) <= Len(s) /\ SubSeq(s, 1, Len(prefix)) = prefix

\* the citation key begins with the pageKey and the ':' after it
MutStartsWithPageAndColon(citationKey, pageKey) ==
  StartsWith(citationKey, pageKey \o <<":">>)

\* citationKey.startsWith(pageKey)
KeyOfPage(citationKey, pageKey) == StartsWith(citationKey, pageKey)

\* the entries of the map the loop over citationsMap stops at for a page
EntriesOfPage(citationsMap, page) ==
  {i \in DOMAIN citationsMap :
     KeyOfPage(citationsMap[i].key, PageSource(page))}

\* the source_location of one node: with a page, the first entry of the
\* map whose key starts with the pageKey gives cited_text and
\* citation_verified
EnrichNode(node, citationsMap) ==
  LET found == EntriesOfPage(citationsMap, node.page)
  IN  IF node.page # NoPage /\ node.page # 0 /\ found # {}
        THEN [node EXCEPT
                !.cited_text =
                   citationsMap[CHOOSE i \in found :
                                  \A j \in found : i <= j].value,
                !.citation_verified = TRUE]
        ELSE node

\* enrichExtractionWithSearchCitations(extraction, citationsMap) over the
\* nodes of the form and the elements of its arrays
enrichExtractionWithSearchCitations(obj, citationsMap) ==
  [obj EXCEPT
     !.fields = [i \in DOMAIN @ |-> EnrichNode(@[i], citationsMap)],
     !.extracted_data = [i \in DOMAIN @ |-> EnrichNode(@[i], citationsMap)]]

\* extractWithSearchResults: the input of the tool_use block enriched with
\* the citations of the text blocks, {} when the response has no tool_use
\* block, an error when the request fails
extractWithSearchResults(response) ==
  IF response.kind = "api_error" THEN Thrown
  ELSE IF response.kind = "tool_use"
    THEN Returned(enrichExtractionWithSearchCitations(
                    response.input,
                    CollectCitations(response.citations, <<>>)))
  ELSE Returned(EmptyResults)

\* extractWithCitations: the parsed response, an error when the request
\* fails
extractWithCitations(response) ==
  IF response.kind = "api_error" THEN Thrown ELSE Returned(EmptyResults)

\* the tail shared by structureExtraction and the single pass: the input of
\* the tool_use block, else the JSON of the first text block with braces
\* (JSON.parse throws on malformed text), else an error
FormOfResponse(response) ==
  IF response.kind \in {"tool_use", "json_text"}
    THEN Returned(response.input)
    ELSE Thrown

\* structureExtraction(citationResult, useThinking)
structureExtraction(response) == FormOfResponse(response)

\* the single-pass request of runExtraction and the reading of its response
SinglePassExtraction(response) == FormOfResponse(response)

\* where runExtraction starts
FirstStage(pageTexts, pdfBase64) ==
  IF UsesSearchResults(pageTexts) THEN "searchResults"
  ELSE IF UsesTwoPass(pdfBase64) THEN "pass1"
  ELSE "singlePass"

\* a failed Search Results strategy goes straight to the single pass
MutSearchFailureSkipsTwoPass(pdfBase64) == "singlePass"

\* where runExtraction goes on when the Search Results strategy has thrown
StageAfterSearchResults(pdfBase64) ==
  IF UsesTwoPass(pdfBase64) THEN "pass1" ELSE "singlePass"

\* ------------------------------------------------------------------------
\* API key settings
\* ------------------------------------------------------------------------

\* getItem gives null: nothing is stored under the key
NoItem == [present |-> FALSE, value |-> <<>>]

\* the string stored under the key
Item(value) == [present |-> TRUE, value |-> value]

\* type StorageType
StorageTypes == {"none", "session", "persistent"}

\* the Save button: disabled={!apiKey.trim() || apiKeyStatus === 'checking'}
SaveDisabled(key, status) == Trim(key) = <<>> \/ status = "checking"

\* the key is written without the two removeItem calls before it
MutWriteWithoutClearing(storage, chosen, key) ==
  IF chosen = "persistent" THEN [storage EXCEPT !.local = Item(Trim(key))]
  ELSE IF chosen = "session" THEN [storage EXCEPT !.session = Item(Trim(key))]
  ELSE storage

\* saveApiKey after the validation: both items are removed, then the trimmed
\* key is set in the storage of the chosen type, in none for 'none'
WriteApiKey(storage, chosen, key) ==
  LET cleared == [storage EXCEPT !.local = NoItem, !.session = NoItem]
  IN  IF chosen = "persistent"
        THEN [cleared EXCEPT !.local = Item(Trim(key))]
      ELSE IF chosen = "session"
        THEN [cleared EXCEPT !.session = Item(Trim(key))]
      ELSE cleared

\* the mount effect: the persistent key wins over the session key; without
\* either the state stays as useState made it
LoadedOnMount(local, session) ==
  IF local.present /\ local.value # <<>>
    THEN [apiKey |-> local.value, storageType |-> "persistent",
          apiKeyStatus |-> "valid"]
  ELSE IF session.present /\ session.value # <<>>
    THEN [apiKey |-> session.value, storageType |-> "session",
          apiKeyStatus |-> "valid"]
  ELSE [apiKey |-> <<>>, storageType |-> "none", apiKeyStatus |-> "empty"]

\* ------------------------------------------------------------------------
\* Explored inputs
\* ------------------------------------------------------------------------

\* page contents a document is assembled from
SamplePage ==
  << <<"S","a","m","p","l","e">>, <<"s","i","z","e">>, <<"w","a","s">>,
     <<"4","2">>, <<"p","a","t","i","e","n","t","s">>,
     <<"t","o","t","a","l",".">> >>

LetterPage ==
  << <<>>, <<"a","b">>, <<"c","d">>, <<"e","f">>, <<"g","h">>,
     <<"i","j">>, <<"k","l">> >>

NumberPage ==
  << <<"T","u","m","o","r">>, <<"v","o","l","u","m","e">>, <<" ">>,
     <<"1","2","3","4","5","6","7","8","9","0","1","2">>,
     <<"1","2","3","4","5","6","7",".","8","9","0","1">>,
     <<"t","u","m","o","r"," ","v","o","l","u","m","e">> >>

PagePool == {SamplePage, LetterPage, NumberPage}

\* the sequences of at most n distinct elements of S
RECURSIVE DistinctSeqsUpTo(_, _)
DistinctSeqsUpTo(S, n) ==
  IF n = 0 THEN {<<>>}
  ELSE LET shorter == DistinctSeqsUpTo(S, n - 1)
       IN  shorter \cup
           UNION {{Append(s, x) : x \in S \ {s[i] : i \in DOMAIN s}} :
                    s \in shorter}

\* a document longer than the indexing cap: its last page is never indexed;
\* the same sentence stands on its pages 1, 2 and 11
LongDocument ==
  LET sentence == << <<"s","i","z","e">>, <<"w","a","s">>, <<"4","2">>,
                     <<"p","a","t","i","e","n","t","s">> >>
  IN  [i \in 1..(MaxIndexedPages + 1) |->
         IF i \in {1, 2, MaxIndexedPages + 1} THEN sentence
         ELSE << <<"x">> >>]

\* the PDFs that can be uploaded: at least one page each
Documents ==
  (DistinctSeqsUpTo(PagePool, MaxDocPages) \ {<<>>}) \cup {LongDocument}

\* the text of fragments a..b of a page as a reader would quote it
Window(page, a, b) == JoinWithSpace(SubSeq(page, a, b))

Windows ==
  UNION {{Window(page, a, b) : a \in 1..Len(page), b \in 1..Len(page)} :
           page \in PagePool} \ {<<>>}

Cut(s, da, db) == SubSeq(s, 1 + da, Len(s) - db)

RECURSIVE WithSeparator(_, _)
WithSeparator(s, sep) ==
  IF s = <<>> THEN <<>>
  ELSE (IF Head(s) = " " THEN sep ELSE <<Head(s)>>)
       \o WithSeparator(Tail(s), sep)

Spaces(n) == [i \in 1..n |-> " "]

Pad(s, l, r) == Spaces(l) \o s \o Spaces(r)

\* quotations cut inside a fragment, quotations whose whitespace differs from
\* the page's, and quotations padded with whitespace, also up to the length
\* floor on their own
Queries ==
  {Cut(w, da, db) : w \in Windows, da \in 0..MaxCut, db \in 0..MaxCut}
  \cup {WithSeparator(w, sep) : w \in Windows, sep \in {<<" ", " ">>, <<"\t">>}}
  \cup {Pad(w, l, r) : w \in Windows \cup {<<>>}, l \in 0..MaxPad,
                       r \in {0, MinQueryLength}}

HintPages == {NoPage} \cup (1..MaxDocPages) \cup {MaxIndexedPages + 1}

\* the located nodes an extraction result is assembled from: a value with
\* the sentence it was cited from, a value without a citation, and a value
\* cited over five fragments, on the pages of a document and on a page past
\* the indexing cap
ResultNodes ==
  LET cited   == << <<"s","i","z","e"," ","w","a","s"," ","4","2"," ",
                      "p","a","t","i","e","n","t","s">>,
                    <<>>,
                    <<"a","b"," ","c","d"," ","e","f"," ","g","h"," ","i","j">> >>
      content == << <<"4","2">>,
                    <<"p","a","t","i","e","n","t","s"," ","t","o","t","a","l",".">>,
                    <<"a","b">> >>
      path    == << "baseline.sampleSize.totalN", "outcomes.mortality",
                    "studyId.doi" >>
      node(i, p) == Node(path[i], content[i], p, cited[i], <<>>, i # 2)
  IN  {node(i, p) : i \in 1..3, p \in {1, 2}}
      \cup {node(1, MaxIndexedPages + 1)}

\* the sequences of at most n elements of S
RECURSIVE SeqsUpTo(_, _)
SeqsUpTo(S, n) ==
  IF n = 0 THEN {<<>>}
  ELSE LET shorter == SeqsUpTo(S, n - 1)
       IN  shorter \cup {Append(s, x) : s \in shorter, x \in S}

\* MappingItem values as the interface admits them: text and citedText are
\* independent strings, citedText optional
MappingItems ==
  LET sentence == <<"s","i","z","e"," ","w","a","s"," ","4","2"," ",
                    "p","a","t","i","e","n","t","s">>
      phrase   == <<"p","a","t","i","e","n","t","s"," ","t","o","t","a","l",".">>
      item(page, text, citedText, path, verified) ==
        [page |-> page, text |-> text, path |-> path,
         verified |-> verified, citedText |-> citedText]
  IN  { item(1, <<"4","2">>, sentence, "baseline.sampleSize.totalN", TRUE),
        item(1, phrase, <<>>, "outcomes.mortality", FALSE),
        item(2, phrase, <<>>, "outcomes.mortality", FALSE),
        item(1, phrase, <<"4">>, "outcomes.mortality", TRUE),
        item(1, <<"4">>, <<>>, "studyId.doi", FALSE),
        item(1, <<"2">>, <<"4">>, "studyId.doi", TRUE) }

\* the PDFs uploaded while papers are stored and switched
PaperDocuments == {<<SamplePage>>, <<LetterPage>>}

\* the text stands on the page of the document
OnPage(text, doc, page) ==
  page \in DOMAIN doc /\ IndexOf(JoinWithSpace(doc[page]), text) # -1

\* what runExtraction returns for the text of a document: a form with the
\* sample size, cited from the page that states it
Extractions(doc) ==
  {[isNull |-> FALSE, fields |-> <<node>>, extracted_data |-> <<>>] :
     node \in {n \in ResultNodes :
                 /\ n.path = "baseline.sampleSize.totalN"
                 /\ OnPage(n.cited_text, doc, n.page)}}

\* what runExtraction returns for the text of either document: a form with
\* one value, cited from the page of the document that states it
ExtractionsOf(doc) ==
  {[isNull |-> FALSE, fields |-> <<node>>, extracted_data |-> <<>>] :
     node \in {n \in ResultNodes :
                 /\ n.cited_text # <<>>
                 /\ n.page = 1
                 /\ OnPage(n.cited_text, doc, n.page)}}

\* what the user can select on the pages of a document
Selections(doc) ==
  {sel \in {[text |-> <<"p","a","t","i","e","n","t","s"," ",
                        "t","o","t","a","l",".">>, page |-> 1]} :
     OnPage(sel.text, doc, sel.page)}

\* the field paths the user maps a selection to
ManualPaths == {"outcomes.mortality"}

\* String.prototype.toUpperCase, used to write contexts in capitals
ToUpperCase(s) ==
  [i \in 1..Len(s) |->
     IF \E k \in 1..26 : LowerChars[k] = s[i]
       THEN UpperChars[CHOOSE k \in 1..26 : LowerChars[k] = s[i]]
       ELSE s[i]]

\* the text with a capital first letter
Capitalised(s) ==
  IF s = <<>> THEN s ELSE ToUpperCase(<<Head(s)>>) \o Tail(s)

\* the words and phrases the text before a citation is made of
ContextPhrases ==
  {Chars[w] : w \in {"author", "doi", "sample size", "control", "n", "age",
                     "mean", "male", "female", "mrs", "outcome", "measure",
                     "mortality", "patients"}}

\* the text blocks that precede a citation: up to MaxContextWords phrases,
\* in lower case, in capitals, or with a capital first letter
Contexts ==
  LET texts == {JoinWithSpace(phrases) :
                  phrases \in SeqsUpTo(ContextPhrases, MaxContextWords)}
  IN  texts \cup {ToUpperCase(t) : t \in texts}
            \cup {Capitalised(t) : t \in texts}

\* the forms a response carries: one located node of the first page each
ExtractionForms ==
  {[isNull |-> FALSE, fields |-> <<node>>, extracted_data |-> <<>>] :
     node \in {n \in ResultNodes : n.page = 1}}

\* the citation of the sentence on the first page of a document
SampleCitation ==
  Citation(PageSource(1),
           <<"S","a","m","p","l","e"," ","s","i","z","e"," ","w","a","s",
             " ","4","2">>)

\* the answers of the API to a request: a tool_use block, a text block with
\* JSON, a text block with malformed JSON, neither, or a failed request
Responses ==
  {[kind |-> kind, input |-> form, citations |-> citations] :
     kind \in {"tool_use", "json_text"}, form \in ExtractionForms,
     citations \in {<<>>, <<SampleCitation>>}}
  \cup {[kind |-> kind, input |-> NoResults, citations |-> <<>>] :
          kind \in {"malformed_json", "no_result", "api_error"}}

\* the pageTexts argument: left out, without pages, or the pages of a PDF
PageTextsArguments ==
  {Undefined, Given(<<>>),
   Given(<<[page |-> 1, text |-> JoinWithSpace(SamplePage)]>>)}

\* the pdfBase64 argument: left out, the empty string, or the bytes of a PDF
Base64Arguments == {Undefined, Given(<<>>), Given(<<SamplePage>>)}

\* a page on which a quotation stands twice: over six fragments, and again
\* within the one fragment that closes the page
RepeatedPage ==
  << <<"a","b">>, <<"c","d">>, <<"e","f">>, <<"g","h">>, <<"i","j">>,
     <<"k","l">>,
     <<"a","b"," ","c","d"," ","e","f"," ","g","h"," ","i","j"," ","k","l">> >>

\* the PDFs with repeated text: NumberPage repeats 'tumor volume'
RepeatedDocuments ==
  DistinctSeqsUpTo({RepeatedPage, NumberPage}, MaxDocPages) \ {<<>>}

\* quotations from the pages with repeated text, also cut inside a fragment
RepeatedQueries ==
  UNION {{Cut(Window(page, a, b), da, db) :
            a \in 1..Len(page), b \in 1..Len(page),
            da \in 0..MaxCut, db \in 0..MaxCut} :
           page \in {RepeatedPage, NumberPage}}

\* for every rule of inferFieldPath a text made of the keywords the rule
\* asks for and of nothing else
RuleContexts ==
  {Chars[w] : w \in {"author", "citation", "doi", "pmid", "journal", "year",
                     "published", "country", "countries", "sample size",
                     "total n", "patients enrolled", "male", "female",
                     "nihss", "gcs", "mrs", "population", "inclusion",
                     "eligib", "intervention", "comparator", "control group",
                     "study type", "design", "mortality", "death",
                     "complication", "adverse"}}
  \cup {JoinWithSpace(<<Chars[pair[1]], Chars[pair[2]]>>) :
          pair \in {<<"surgical", "n ">>, <<"control", "n ">>,
                    <<"age", "mean">>, <<"age", "median">>,
                    <<"outcome", "measure">>, <<"follow", "up">>,
                    <<"mrs", "outcome">>}}

\* the context texts inferFieldPath is called with
InferContexts == Contexts \cup RuleContexts

\* what is typed into the API key field: nothing, blanks, a key pasted with
\* blanks around it, another key
KeyTexts ==
  {<<>>, <<" ">>, <<" ", "s", "k", "-", "a", " ">>, <<"s", "k", "-", "b">>}

\* the leaves of an extraction form: a count and its sentence, a count of 0,
\* a flag that is false, an empty text, a flag that is true, a leaf without
\* content and a leaf without a page
LeafNodes ==
  LET sentence == <<"s","i","z","e"," ","w","a","s"," ","4","2"," ",
                    "p","a","t","i","e","n","t","s">>
      leaf(path, page, cited) == Node(path, <<"4","2">>, page, cited, <<>>,
                                      cited # <<>>)
  IN  { leaf("baseline.sampleSize.totalN", 1, sentence),
        WithContent(leaf("outcomes.mortality", 1, sentence),
                    "number", <<"0">>),
        WithContent(leaf("outcomes.mortality", 2, <<>>),
                    "boolean", <<"f","a","l","s","e">>),
        WithContent(leaf("studyId.doi", 1, <<>>), "string", <<>>),
        WithContent(leaf("studyId.doi", 2, sentence),
                    "boolean", <<"t","r","u","e">>),
        WithContent(leaf("baseline.sampleSize.totalN", 2, <<>>),
                    "undefined", <<>>),
        leaf("outcomes.mortality", NoPage, <<>>) }

\* the forms runExtraction returns: leaves in the form's sections and in
\* extractionLog.extracted_data
LeafForms ==
  {[isNull |-> FALSE, fields |-> fields, extracted_data |-> entries] :
     fields \in DistinctSeqsUpTo(LeafNodes, MaxMappings),
     entries \in DistinctSeqsUpTo(LeafNodes, 1)}

\* the citations of a response about a document of ten pages and more: two
\* sentences of page 1, one of page 2 and one of page 10
PageCitations ==
  { SampleCitation,
    Citation(PageSource(1), <<"4","2"," ","p","a","t","i","e","n","t","s">>),
    Citation(PageSource(2), <<"m","e","a","n"," ","a","g","e"," ","6","1">>),
    Citation(PageSource(MaxIndexedPages),
             <<"n","o"," ","d","e","a","t","h","s">>) }

\* the nodes of the tool output: values located on pages 1, 2 and 10 and a
\* value without a page
CitedNodes ==
  {Node("baseline.sampleSize.totalN", <<"4","2">>, 1, <<>>, <<>>, FALSE),
   Node("baseline.age.mean", <<"6","1">>, 2, <<>>, <<>>, FALSE),
   Node("outcomes.mortality", <<"0">>, MaxIndexedPages, <<>>, <<>>, FALSE),
   Node("studyId.doi", <<"1","0",".","1">>, NoPage, <<>>, <<>>, FALSE)}

\* the tool outputs that are enriched
CitedForms ==
  {[isNull |-> FALSE, fields |-> fields, extracted_data |-> <<>>] :
     fields \in DistinctSeqsUpTo(CitedNodes, MaxMappings)}

\* the citations of a response in the order of its text blocks
CitationLists == DistinctSeqsUpTo(PageCitations, MaxCitations)

\* ------------------------------------------------------------------------
\* State
\* ------------------------------------------------------------------------

VARIABLES
  file,               \* useState<File | null>(null), held as the document in it
  pdfDoc,             \* useState<any>(null): the document on display
  pdfBase64,          \* useState<string>(""): the uploaded bytes in base64
  textIndex,          \* useState<TextPosition[]>([])
  results,            \* useState<ExtractionResults | null>(null)
  mappings,           \* useMemo(() => getMappings(), [getMappings])
  preciseHighlights,  \* useState<Map<string, PreciseHighlight>>(new Map())
  currentPaperId,     \* useState<string | null>(null)
  papers,             \* IndexedDB object store 'papers', by id
  history,            \* IndexedDB object store 'history', oldest entry first
  activePaperId,      \* IndexedDB object store 'settings': activePaperId
  issuedIds,          \* how many paper ids generatePaperId has handed out
  canUndo,            \* useState(false): the Undo button is enabled
  lastSave,           \* history variable: what the latest save replaced
  lastSearch,         \* the latest call of searchForCitedText and its result
  lastBuild,          \* the latest call of buildPreciseHighlights and its result
  lastInfer,          \* the latest call of inferFieldPath and its result
  extraction,         \* the call of runExtraction in progress
  apiKey,             \* useState<string>(''): the key in memory
  storageType,        \* useState<StorageType>('none')
  apiKeyStatus,       \* useState<'empty' | 'valid' | 'invalid' | 'checking'>
  localStorage,       \* the item 'ANTHROPIC_API_KEY' of window.localStorage
  sessionStorage,     \* the item 'ANTHROPIC_API_KEY_SESSION' of the tab
  pendingSaves,       \* the calls of saveApiKey awaiting validateApiKey
  lastKeyOp,          \* the handler of the settings that ran last
  lastEnrich,         \* the latest enrichment of a tool output and its result
  autoSaveEnabled,    \* useState(true)
  settingsAutoSave,   \* IndexedDB object store 'settings': autoSaveEnabled
  autoSaveTimers,     \* the pending timeouts of the auto-save effect, oldest
                      \* first, each with the render its callback closes over
  autoSaveTimerRef,   \* autoSaveTimerRef.current is the timeout armed last,
                      \* and that timeout is pending
  autoSaveCleanup,    \* the latest run of the effect has returned its cleanup
  processing          \* the call of startExtraction awaiting runExtraction

\* the component state the highlight engine reads and writes
viewVars == <<file, pdfDoc, pdfBase64, textIndex, results, mappings,
              preciseHighlights>>

\* the paper store and the component's place in it
paperVars == <<currentPaperId, papers, history, activePaperId, issuedIds,
               canUndo, lastSave>>

\* the calls into the extraction service
serviceVars == <<lastInfer, extraction>>

\* no handler of the settings has run
NoKeyOp == [op |-> "none", storageType |-> "none", key |-> <<>>]

\* the calls in progress
callVars == <<lastSearch, lastBuild, serviceVars>>

\* the API key settings
keyVars == <<apiKey, storageType, apiKeyStatus, localStorage, sessionStorage,
             pendingSaves, lastKeyOp>>

\* what no handler of the papers reads or writes
apartVars == <<keyVars, lastEnrich>>

\* the auto-save setting
settingVars == <<autoSaveEnabled, settingsAutoSave>>

\* the timeouts of the auto-save effect
timerVars == <<autoSaveTimers, autoSaveTimerRef, autoSaveCleanup>>

\* the rest of the component and of the service
shellVars == <<apartVars, settingVars, timerVars, processing>>

\* what the handlers of the API key settings leave alone
notKeyVars == <<viewVars, paperVars, callVars, lastEnrich, settingVars,
                timerVars, processing>>

\* what the enrichment leaves alone
notEnrichVars == <<viewVars, paperVars, callVars, keyVars, settingVars,
                   timerVars, processing>>

\* no extraction is awaited
NotProcessing == [isProcessing |-> FALSE, pdfText |-> <<>>]

NoEnrich == [called |-> FALSE, extraction |-> NoResults, citations |-> <<>>,
             result |-> NoResults]

vars == <<viewVars, paperVars, callVars, shellVars>>

NoSearch == [called |-> FALSE, query |-> <<>>, hintPage |-> NoPage,
             result |-> Null]

NoBuild == [called |-> FALSE, mappingItems |-> <<>>,
            result |-> EmptyHighlights]

NoInfer == [called |-> FALSE, context |-> <<>>, result |-> ""]

\* no call of runExtraction in progress
NoExtraction == [pc          |-> "idle",
                 useThinking |-> FALSE,
                 pageTexts   |-> Undefined,
                 pdfBase64   |-> Undefined,
                 invoked     |-> <<>>,
                 outcomes    |-> <<>>,
                 value       |-> NoResults]

\* no call is in progress: the program is single-threaded and a handler runs
\* only when the call before it has returned
Idle ==
  /\ ~lastSearch.called
  /\ ~lastBuild.called
  /\ ~lastInfer.called
  /\ extraction.pc = "idle"

\* no document: pdfDoc === null, file === null
NoDocument == <<>>

\* btoa of the file's bytes; the bytes are held as the document they parse to
Base64(doc) == [data |-> doc]

\* the empty string held by pdfBase64 before any upload
NoBase64 == [data |-> <<>>]

\* currentPaperId === null, activePaperId: null
NoPaper == 0

\* an object store without records
NoRecords == [id \in {} |-> Null]

\* no save since the results on display last changed
NoSave == [saved |-> FALSE, paperId |-> NoPaper, before |-> NoResults]

\* the else branch forgotten: without an index or without mappings the map
\* is left as it was
MutRebuildKeepsMap(index, mappingItems) ==
  IF Len(index) > 0 /\ Len(mappingItems) > 0
    THEN buildPreciseHighlights(index, mappingItems)
    ELSE preciseHighlights

\* useEffect(..., [textIndex, mappings, buildPreciseHighlights])
RebuildHighlights(index, mappingItems) ==
  IF Len(index) > 0 /\ Len(mappingItems) > 0
    THEN buildPreciseHighlights(index, mappingItems)
    ELSE EmptyHighlights

Init ==
  /\ file = NoDocument
  /\ pdfDoc = NoDocument
  /\ pdfBase64 = NoBase64
  /\ textIndex = <<>>
  /\ results = NoResults
  /\ mappings = <<>>
  /\ preciseHighlights = EmptyHighlights
  /\ currentPaperId = NoPaper
  /\ papers = NoRecords
  /\ history = <<>>
  /\ activePaperId = NoPaper
  /\ issuedIds = 0
  /\ canUndo = FALSE
  /\ lastSave = NoSave
  /\ lastSearch = NoSearch
  /\ lastBuild = NoBuild
  /\ lastInfer = NoInfer
  /\ extraction = NoExtraction
  /\ apiKey = <<>>
  /\ storageType = "none"
  /\ apiKeyStatus = "empty"
  /\ localStorage = NoItem
  /\ sessionStorage = NoItem
  /\ pendingSaves = <<>>
  /\ lastKeyOp = NoKeyOp
  /\ lastEnrich = NoEnrich
  /\ autoSaveEnabled = TRUE
  /\ settingsAutoSave = TRUE
  /\ autoSaveTimers = <<>>
  /\ autoSaveTimerRef = FALSE
  /\ autoSaveCleanup = FALSE
  /\ processing = NotProcessing

\* the state of the render a callback closes over, as far as
\* saveCurrentPaper reads it
Render(f, base64, res, paperId) ==
  [file |-> f, pdfBase64 |-> base64, results |-> res,
   currentPaperId |-> paperId]

\* the timeout in the ref is left pending
MutNoClearTimeout(timers, refPending) == timers

\* if (autoSaveTimerRef.current) clearTimeout(autoSaveTimerRef.current): the
\* ref holds the timeout armed last
ClearTimer(timers, refPending) ==
  IF refPending THEN SubSeq(timers, 1, Len(timers) - 1) ELSE timers

\* the auto-save effect after a handler: when file, results or
\* autoSaveEnabled have changed (fresh: the handler has set a new object),
\* the cleanup of the previous run is called, and the effect runs in the new
\* render, whose pdfBase64 is base64
AutoSaveEffect(fresh, base64) ==
  LET changed    == \/ fresh
                    \/ file' # file
                    \/ results' # results
                    \/ autoSaveEnabled' # autoSaveEnabled
      cleaned    == IF autoSaveCleanup
                      THEN ClearTimer(autoSaveTimers, autoSaveTimerRef)
                      ELSE autoSaveTimers
      refCleaned == autoSaveTimerRef /\ ~autoSaveCleanup
      returns    == ~autoSaveEnabled' \/ file' = NoDocument \/ results'.isNull
  IN  IF ~changed THEN UNCHANGED timerVars
      ELSE IF returns
        THEN /\ autoSaveTimers' = cleaned
             /\ autoSaveTimerRef' = refCleaned
             /\ autoSaveCleanup' = FALSE
        ELSE /\ autoSaveTimers' =
                  Append(ClearTimer(cleaned, refCleaned),
                         Render(file', base64, results', currentPaperId'))
             /\ autoSaveTimerRef' = TRUE
             /\ autoSaveCleanup' = TRUE

\* handleFileChange for a PDF the renderer can parse: setFile, setPdfBase64,
\* setPdfDoc(pdf), setTextIndex(newTextIndex), after which the rebuild effect
\* runs.  The file input is rendered in the place of the viewer, while there
\* is no pdfDoc.
HandleFileChange(doc) ==
  /\ Idle
  /\ pdfDoc = NoDocument
  /\ file' = doc
  /\ pdfBase64' = Base64(doc)
  /\ pdfDoc' = doc
  /\ textIndex' = BuildTextIndex(doc)
  /\ preciseHighlights' = RebuildHighlights(textIndex', mappings)
  /\ UNCHANGED <<results, mappings, paperVars, callVars, apartVars,
                 settingVars, processing>>
  /\ AutoSaveEffect(TRUE, pdfBase64)

\* setResults(...) changes what getMappings yields, after which the rebuild
\* effect and the auto-save effect run
ShowResults(res) ==
  /\ Idle
  /\ results' = res
  /\ mappings' = getMappings(res)
  /\ preciseHighlights' = RebuildHighlights(textIndex, mappings')
  /\ UNCHANGED <<file, pdfDoc, pdfBase64, textIndex, paperVars, callVars,
                 apartVars, settingVars>>
  /\ AutoSaveEffect(~res.isNull, pdfBase64)

\* setResults(...) by a handler that awaits no extraction
SetResults(res) ==
  /\ ShowResults(res)
  /\ UNCHANGED processing

\* setResults(res) with an extraction result that has one located node more
\* than the results on display
AddLocatedField(node) ==
  /\ Len(mappings) < MaxMappings
  /\ SetResults([isNull         |-> FALSE,
                 fields         |-> Append(results.fields, node),
                 extracted_data |-> results.extracted_data])

\* setResults(null)
ClearResults == SetResults(NoResults)

\* a call searchForCitedText(query, hintPage)
SearchForCitedText(query, hintPage) ==
  /\ Idle
  /\ lastSearch' = [called   |-> TRUE,
                    query    |-> query,
                    hintPage |-> hintPage,
                    result   |-> searchForCitedText(textIndex, query, hintPage)]
  /\ UNCHANGED <<viewVars, paperVars, lastBuild, serviceVars, shellVars>>

\* the call returns to its caller
SearchReturns ==
  /\ lastSearch.called
  /\ lastSearch' = NoSearch
  /\ UNCHANGED <<viewVars, paperVars, lastBuild, serviceVars, shellVars>>

\* a call buildPreciseHighlights(mappingItems)
BuildPreciseHighlights(mappingItems) ==
  /\ Idle
  /\ lastBuild' = [called       |-> TRUE,
                   mappingItems |-> mappingItems,
                   result       |-> buildPreciseHighlights(textIndex,
                                                           mappingItems)]
  /\ UNCHANGED <<viewVars, paperVars, lastSearch, serviceVars, shellVars>>

\* the call returns to its caller
BuildReturns ==
  /\ lastBuild.called
  /\ lastBuild' = NoBuild
  /\ UNCHANGED <<viewVars, paperVars, lastSearch, serviceVars, shellVars>>

\* switchToPaper for a stored paper: setFile, setCurrentPaperId,
\* setResults(paper.extractionResults), updateSettings, setPdfDoc,
\* setCanUndo; the text index and pdfBase64 are not set.  The rebuild effect runs afterwards.
SwitchToPaper(paperId) ==
  /\ Idle
  /\ paperId \in DOMAIN papers
  /\ LET paper == papers[paperId]
     IN  /\ file' = paper.pdfBase64.data
         /\ pdfDoc' = paper.pdfBase64.data
         /\ results' = paper.extractionResults
  /\ currentPaperId' = paperId
  /\ activePaperId' = paperId
  /\ canUndo' = (EntriesOf(history, paperId) # {})
  /\ mappings' = getMappings(results')
  /\ preciseHighlights' = RebuildHighlights(textIndex, mappings')
  /\ UNCHANGED <<pdfBase64, textIndex, papers, history, issuedIds, lastSave,
                 callVars, apartVars, settingVars, processing>>
  /\ AutoSaveEffect(TRUE, pdfBase64)

\* saveCurrentPaper in the render it closes over: savePaper under the
\* currentPaperId of that render or a generated id, then, when there are
\* results and there was a currentPaperId, updatePaperResults, which reads
\* the paper back from the store
SavePaperOf(render) ==
  LET known      == render.currentPaperId # NoPaper
      paperId    == IF known THEN render.currentPaperId ELSE issuedIds + 1
      saved      == savePaper(papers, StoredPaper(paperId, render.pdfBase64,
                                                  render.results))
      logsChange == ~render.results.isNull /\ known
      updated    == updatePaperResults(saved, history, paperId,
                                       render.results)
  IN  /\ Idle
      /\ render.file # NoDocument
      /\ render.pdfBase64 # NoBase64
      /\ ~known => issuedIds < MaxPapers
      /\ logsChange => Len(history) < MaxHistory
      /\ papers' = IF logsChange THEN updated[1] ELSE saved
      /\ history' = IF logsChange THEN updated[2] ELSE history
      /\ currentPaperId' = IF known THEN currentPaperId ELSE paperId
      /\ activePaperId' = IF known THEN activePaperId ELSE paperId
      /\ issuedIds' = IF known THEN issuedIds ELSE issuedIds + 1
      /\ canUndo' = IF logsChange THEN EntriesOf(history', paperId) # {}
                    ELSE canUndo
      /\ lastSave' = [saved   |-> paperId \in DOMAIN papers,
                      paperId |-> paperId,
                      before  |-> IF paperId \in DOMAIN papers
                                    THEN papers[paperId].extractionResults
                                    ELSE NoResults]
      /\ UNCHANGED <<viewVars, callVars, apartVars, settingVars, processing>>

\* the Save button, rendered with a file and enabled with results:
\* saveCurrentPaper('manual_edit') in the current render; currentPaperId is
\* no dependency of the auto-save effect
SaveCurrentPaper ==
  /\ ~results.isNull
  /\ SavePaperOf(Render(file, pdfBase64, results, currentPaperId))
  /\ UNCHANGED timerVars

\* a timeout of the auto-save effect expires: saveCurrentPaper('update') in
\* the render the effect ran in
AutoSave ==
  \E i \in DOMAIN autoSaveTimers :
    /\ SavePaperOf(autoSaveTimers[i])
    /\ autoSaveTimers' = SubSeq(autoSaveTimers, 1, i - 1)
                           \o SubSeq(autoSaveTimers, i + 1,
                                     Len(autoSaveTimers))
    /\ autoSaveTimerRef' = (autoSaveTimerRef /\ i # Len(autoSaveTimers))
    /\ UNCHANGED autoSaveCleanup

\* a timeout of the auto-save effect expires in a render without file or
\* pdfBase64: saveCurrentPaper returns at once
AutoSaveReturns ==
  \E i \in DOMAIN autoSaveTimers :
    /\ Idle
    /\ \/ autoSaveTimers[i].file = NoDocument
       \/ autoSaveTimers[i].pdfBase64 = NoBase64
    /\ autoSaveTimers' = SubSeq(autoSaveTimers, 1, i - 1)
                           \o SubSeq(autoSaveTimers, i + 1,
                                     Len(autoSaveTimers))
    /\ autoSaveTimerRef' = (autoSaveTimerRef /\ i # Len(autoSaveTimers))
    /\ UNCHANGED <<viewVars, paperVars, callVars, apartVars, settingVars,
                   autoSaveCleanup, processing>>

\* handleDeletePaper, confirmed by the user
HandleDeletePaper(paperId) ==
  /\ Idle
  /\ paperId \in DOMAIN papers
  /\ papers' = deletePaper(papers, paperId)
  /\ history' = deleteHistory(history, paperId)
  /\ lastSave' = IF lastSave.paperId = paperId THEN NoSave ELSE lastSave
  /\ IF currentPaperId = paperId
       THEN /\ currentPaperId' = NoPaper
            /\ file' = NoDocument
            /\ results' = NoResults
            /\ pdfDoc' = NoDocument
       ELSE UNCHANGED <<currentPaperId, file, results, pdfDoc>>
  /\ mappings' = getMappings(results')
  /\ preciseHighlights' = RebuildHighlights(textIndex, mappings')
  /\ UNCHANGED <<pdfBase64, textIndex, activePaperId, issuedIds, canUndo,
                 callVars, apartVars, settingVars, processing>>
  /\ AutoSaveEffect(FALSE, pdfBase64)

\* handleUndo when undoLastChange returns a previous state; the Undo button
\* is rendered with a file and enabled by canUndo
HandleUndo ==
  /\ Idle
  /\ file # NoDocument
  /\ canUndo
  /\ currentPaperId # NoPaper
  /\ ~UndoReturnsNull(papers, history, currentPaperId)
  /\ LET lastEntry == LastEntry(history, currentPaperId)
     IN  /\ papers' = [papers EXCEPT ![currentPaperId].extractionResults =
                         history[lastEntry].previousState]
         /\ history' = RemoveAt(history, lastEntry)
         /\ results' = history[lastEntry].previousState
  /\ canUndo' = (EntriesOf(history', currentPaperId) # {})
  /\ mappings' = getMappings(results')
  /\ preciseHighlights' = RebuildHighlights(textIndex, mappings')
  /\ lastSave' = NoSave
  /\ UNCHANGED <<file, pdfDoc, pdfBase64, textIndex, currentPaperId,
                 activePaperId, issuedIds, callVars, apartVars, settingVars,
                 processing>>
  /\ AutoSaveEffect(~results'.isNull, pdfBase64)

\* the application starts again: the component state is the initial one, the
\* timeouts and the promises of the page that was left are gone, the stores
\* are as they were left, and initializeApp reads autoSaveEnabled from the
\* settings and restores the id of the last active paper when that paper is
\* still stored
InitializeApp ==
  /\ Idle
  /\ file' = NoDocument
  /\ pdfDoc' = NoDocument
  /\ pdfBase64' = NoBase64
  /\ textIndex' = <<>>
  /\ results' = NoResults
  /\ mappings' = <<>>
  /\ preciseHighlights' = EmptyHighlights
  /\ currentPaperId' = IF activePaperId \in DOMAIN papers THEN activePaperId
                       ELSE NoPaper
  /\ canUndo' = FALSE
  /\ autoSaveEnabled' = settingsAutoSave
  /\ autoSaveTimers' = <<>>
  /\ autoSaveTimerRef' = FALSE
  /\ autoSaveCleanup' = FALSE
  /\ processing' = NotProcessing
  /\ UNCHANGED <<papers, history, activePaperId, issuedIds, lastSave,
                 callVars, apartVars, settingsAutoSave>>

\* updateSettings({ autoSaveEnabled }) of the paper store
UpdateSettings(enabled) ==
  /\ Idle
  /\ settingsAutoSave' = enabled
  /\ UNCHANGED <<viewVars, paperVars, callVars, apartVars, autoSaveEnabled,
                 timerVars, processing>>

\* startExtraction up to await runExtraction(pdfText, ...): the Extract
\* button is rendered while there are no results and nothing is processed,
\* and pdfText is the text of the document on display.  One extraction is in
\* flight at a time: an upload that ends while one is in flight, which shows
\* the button again, is not followed here.
StartExtraction ==
  /\ Idle
  /\ pdfDoc # NoDocument
  /\ results.isNull
  /\ ~processing.isProcessing
  /\ processing' = [isProcessing |-> TRUE, pdfText |-> pdfDoc]
  /\ UNCHANGED <<viewVars, paperVars, callVars, apartVars, settingVars,
                 timerVars>>

\* runExtraction returns res: setResults(res), setProcessing
RunExtractionReturns(res) ==
  /\ processing.isProcessing
  /\ processing' = NotProcessing
  /\ ShowResults(res)

\* runExtraction throws: the error is shown and the results stay
RunExtractionThrows ==
  /\ Idle
  /\ processing.isProcessing
  /\ processing' = NotProcessing
  /\ UNCHANGED <<viewVars, paperVars, callVars, apartVars, settingVars,
                 timerVars>>

\* mapSelectedToField for the text the user has selected, after which the
\* rebuild effect runs; the sections with their Map buttons are rendered
\* with results
MapSelectedToField(path, selectedText) ==
  /\ ~results.isNull
  /\ Len(mappings) < MaxMappings
  /\ SetResults(mapSelectedToField(results, path, selectedText))

\* a call inferFieldPath(context) from parseCitationResponse
InferFieldPath(context) ==
  /\ Idle
  /\ lastInfer' = [called  |-> TRUE,
                   context |-> context,
                   result  |-> inferFieldPath(context)]
  /\ UNCHANGED <<viewVars, paperVars, lastSearch, lastBuild, extraction, shellVars>>

\* the call returns to its caller
InferReturns ==
  /\ lastInfer.called
  /\ lastInfer' = NoInfer
  /\ UNCHANGED <<viewVars, paperVars, lastSearch, lastBuild, extraction, shellVars>>

\* a call runExtraction(pdfText, request, useThinking, images, pdfBase64,
\* onProgress, pageTexts)
RunExtraction(useThinking, pageTexts, base64) ==
  /\ Idle
  /\ extraction' = [NoExtraction EXCEPT
                      !.pc = FirstStage(pageTexts, base64),
                      !.useThinking = useThinking,
                      !.pageTexts = pageTexts,
                      !.pdfBase64 = base64]
  /\ UNCHANGED <<viewVars, paperVars, lastSearch, lastBuild, lastInfer, shellVars>>

\* the strategy has come back: its outcome is kept with its name
Outcome(strategy, outcome) ==
  [strategy |-> strategy, threw |-> outcome.threw, value |-> outcome.value]

\* the try block of the Search Results strategy and its catch
ExtractWithSearchResults(response) ==
  LET outcome == extractWithSearchResults(response)
  IN  /\ extraction.pc = "searchResults"
      /\ extraction' =
           [extraction EXCEPT
              !.invoked = Append(@, "searchResults"),
              !.outcomes = Append(@, Outcome("searchResults", outcome)),
              !.pc = IF outcome.threw
                       THEN StageAfterSearchResults(extraction.pdfBase64)
                       ELSE "returned",
              !.value = outcome.value]
      /\ UNCHANGED <<viewVars, paperVars, lastSearch, lastBuild, lastInfer, shellVars>>

\* Pass 1 of the two-pass strategy and the catch around both passes
ExtractWithCitations(response) ==
  LET outcome == extractWithCitations(response)
  IN  /\ extraction.pc = "pass1"
      /\ extraction' =
           [extraction EXCEPT
              !.invoked = Append(@, "twoPass"),
              !.outcomes = IF outcome.threw
                             THEN Append(@, Outcome("twoPass", outcome))
                             ELSE @,
              !.pc = IF outcome.threw THEN "singlePass" ELSE "pass2"]
      /\ UNCHANGED <<viewVars, paperVars, lastSearch, lastBuild, lastInfer, shellVars>>

\* Pass 2 of the two-pass strategy and the catch around both passes
StructureExtraction(response) ==
  LET outcome == structureExtraction(response)
  IN  /\ extraction.pc = "pass2"
      /\ extraction' =
           [extraction EXCEPT
              !.outcomes = Append(@, Outcome("twoPass", outcome)),
              !.pc = IF outcome.threw THEN "singlePass" ELSE "returned",
              !.value = outcome.value]
      /\ UNCHANGED <<viewVars, paperVars, lastSearch, lastBuild, lastInfer, shellVars>>

\* the single pass: its catch throws 'Extraction failed: ...' again
SinglePass(response) ==
  LET outcome == SinglePassExtraction(response)
  IN  /\ extraction.pc = "singlePass"
      /\ extraction' =
           [extraction EXCEPT
              !.invoked = Append(@, "singlePass"),
              !.outcomes = Append(@, Outcome("singlePass", outcome)),
              !.pc = IF outcome.threw THEN "thrown" ELSE "returned",
              !.value = outcome.value]
      /\ UNCHANGED <<viewVars, paperVars, lastSearch, lastBuild, lastInfer, shellVars>>

\* the promise of runExtraction settles and its caller goes on
ExtractionSettles ==
  /\ extraction.pc \in {"returned", "thrown"}
  /\ extraction' = NoExtraction
  /\ UNCHANGED <<viewVars, paperVars, lastSearch, lastBuild, lastInfer, shellVars>>

\* extractWithSearchResults has found the tool output and the citations of
\* the response, and enriches the one with the others
EnrichExtraction(form, citations) ==
  /\ ~lastEnrich.called
  /\ lastEnrich' =
       [called     |-> TRUE,
        extraction |-> form,
        citations  |-> citations,
        result     |-> enrichExtractionWithSearchCitations(
                         form, CollectCitations(citations, <<>>))]
  /\ UNCHANGED notEnrichVars

\* extractWithSearchResults returns the enriched extraction
EnrichReturns ==
  /\ lastEnrich.called
  /\ lastEnrich' = NoEnrich
  /\ UNCHANGED notEnrichVars

\* onChange of the API key field: setApiKey(e.target.value)
SetApiKey(text) ==
  /\ apiKey' = text
  /\ lastKeyOp' = [NoKeyOp EXCEPT !.op = "setApiKey"]
  /\ UNCHANGED <<storageType, apiKeyStatus, localStorage, sessionStorage,
                 pendingSaves>>
  /\ UNCHANGED notKeyVars

\* the three storage buttons: setStorageType(chosen)
SetStorageType(chosen) ==
  /\ storageType' = chosen
  /\ lastKeyOp' = [NoKeyOp EXCEPT !.op = "setStorageType"]
  /\ UNCHANGED <<apiKey, apiKeyStatus, localStorage, sessionStorage,
                 pendingSaves>>
  /\ UNCHANGED notKeyVars

\* saveApiKey up to await validateApiKey(apiKey.trim()): the call keeps the
\* apiKey and storageType of the render it was made in
SaveApiKey ==
  /\ ~SaveDisabled(apiKey, apiKeyStatus)
  /\ Len(pendingSaves) < MaxPendingSaves
  /\ apiKeyStatus' = "checking"
  /\ pendingSaves' =
       Append(pendingSaves, [apiKey |-> apiKey, storageType |-> storageType])
  /\ lastKeyOp' = [NoKeyOp EXCEPT !.op = "saveApiKey"]
  /\ UNCHANGED <<apiKey, storageType, localStorage, sessionStorage>>
  /\ UNCHANGED notKeyVars

\* saveApiKey from the answer of validateApiKey on: an invalid key is
\* reported and nothing is stored; a valid key is stored as chosen
ValidateApiKeyReturns(i, isValid) ==
  LET call == pendingSaves[i]
      storage == WriteApiKey([local |-> localStorage,
                              session |-> sessionStorage],
                             call.storageType, call.apiKey)
  IN  /\ i \in DOMAIN pendingSaves
      /\ pendingSaves' = SubSeq(pendingSaves, 1, i - 1)
                           \o SubSeq(pendingSaves, i + 1, Len(pendingSaves))
      /\ IF isValid
           THEN /\ localStorage' = storage.local
                /\ sessionStorage' = storage.session
                /\ apiKeyStatus' = "valid"
                /\ lastKeyOp' = [op |-> "saved",
                                 storageType |-> call.storageType,
                                 key |-> call.apiKey]
           ELSE /\ apiKeyStatus' = "invalid"
                /\ lastKeyOp' = [NoKeyOp EXCEPT !.op = "rejected"]
                /\ UNCHANGED <<localStorage, sessionStorage>>
      /\ UNCHANGED <<apiKey, storageType>>
      /\ UNCHANGED notKeyVars

\* clearApiKey: the Clear Key button is shown while apiKey is not empty
ClearApiKey ==
  /\ apiKey # <<>>
  /\ localStorage' = NoItem
  /\ sessionStorage' = NoItem
  /\ apiKey' = <<>>
  /\ storageType' = "none"
  /\ apiKeyStatus' = "empty"
  /\ lastKeyOp' = [NoKeyOp EXCEPT !.op = "clearApiKey"]
  /\ UNCHANGED pendingSaves
  /\ UNCHANGED notKeyVars

\* the page is loaded again, in the same tab or in a new one: the component
\* starts from its useState values, the calls in progress are gone, the
\* session storage of a new tab is empty, and the mount effect reads the key
LoadApiKeyOnMount(newTab) ==
  LET session == IF newTab THEN NoItem ELSE sessionStorage
      loaded == LoadedOnMount(localStorage, session)
  IN  /\ sessionStorage' = session
      /\ apiKey' = loaded.apiKey
      /\ storageType' = loaded.storageType
      /\ apiKeyStatus' = loaded.apiKeyStatus
      /\ pendingSaves' = <<>>
      /\ lastKeyOp' = [NoKeyOp EXCEPT !.op = "mount"]
      /\ UNCHANGED localStorage
      /\ UNCHANGED notKeyVars

Next ==
  \/ \E doc \in Documents : HandleFileChange(doc)
  \/ \E node \in ResultNodes : AddLocatedField(node)
  \/ ClearResults

Spec == Init /\ [][Next]_vars

SearchNext ==
  \/ \E doc \in Documents : HandleFileChange(doc)
  \/ \E query \in Queries, hintPage \in HintPages :
       SearchForCitedText(query, hintPage)
  \/ SearchReturns

SearchSpec == Init /\ [][SearchNext]_vars

OccurrenceNext ==
  \/ \E doc \in RepeatedDocuments : HandleFileChange(doc)
  \/ \E query \in RepeatedQueries, hintPage \in HintPages :
       SearchForCitedText(query, hintPage)
  \/ SearchReturns

OccurrenceSpec == Init /\ [][OccurrenceNext]_vars

BuildNext ==
  \/ \E doc \in Documents : HandleFileChange(doc)
  \/ \E mappingItems \in SeqsUpTo(MappingItems, MaxMappings) :
       BuildPreciseHighlights(mappingItems)
  \/ BuildReturns

BuildSpec == Init /\ [][BuildNext]_vars

PaperNext ==
  \/ \E doc \in PaperDocuments : HandleFileChange(doc)
  \/ \E paperId \in 1..MaxPapers : SwitchToPaper(paperId)
  \/ StartExtraction
  \/ \E res \in Extractions(processing.pdfText) : RunExtractionReturns(res)
  \/ \E path \in ManualPaths, selectedText \in Selections(pdfDoc) :
       MapSelectedToField(path, selectedText)
  \/ SaveCurrentPaper
  \/ AutoSave
  \/ AutoSaveReturns
  \/ HandleUndo
  \/ \E paperId \in 1..MaxPapers : HandleDeletePaper(paperId)
  \/ InitializeApp

PaperSpec == Init /\ [][PaperNext]_vars

SessionNext ==
  \/ \E doc \in PaperDocuments : HandleFileChange(doc)
  \/ \E paperId \in 1..MaxPapers : SwitchToPaper(paperId)
  \/ StartExtraction
  \/ \E res \in ExtractionsOf(processing.pdfText) : RunExtractionReturns(res)
  \/ RunExtractionThrows
  \/ SaveCurrentPaper
  \/ AutoSave
  \/ AutoSaveReturns
  \/ \E paperId \in 1..MaxPapers : HandleDeletePaper(paperId)
  \/ \E enabled \in BOOLEAN : UpdateSettings(enabled)
  \/ InitializeApp

SessionSpec == Init /\ [][SessionNext]_vars

InferNext ==
  \/ \E context \in InferContexts : InferFieldPath(context)
  \/ InferReturns

InferSpec == Init /\ [][InferNext]_vars

ExtractionNext ==
  \/ \E useThinking \in BOOLEAN, pageTexts \in PageTextsArguments,
        base64 \in Base64Arguments :
       RunExtraction(useThinking, pageTexts, base64)
  \/ \E response \in Responses : ExtractWithSearchResults(response)
  \/ \E response \in Responses : ExtractWithCitations(response)
  \/ \E response \in Responses : StructureExtraction(response)
  \/ \E response \in Responses : SinglePass(response)
  \/ ExtractionSettles

ExtractionSpec == Init /\ [][ExtractionNext]_vars

EnrichNext ==
  \/ \E form \in CitedForms, citations \in CitationLists :
       EnrichExtraction(form, citations)
  \/ EnrichReturns

EnrichSpec == Init /\ [][EnrichNext]_vars

MappingNext ==
  \/ \E doc \in PaperDocuments : HandleFileChange(doc)
  \/ StartExtraction
  \/ \E res \in LeafForms : RunExtractionReturns(res)
  \/ ClearResults

MappingSpec == Init /\ [][MappingNext]_vars

KeyNext ==
  \/ \E text \in KeyTexts : SetApiKey(text)
  \/ \E chosen \in StorageTypes : SetStorageType(chosen)
  \/ SaveApiKey
  \/ \E i \in 1..MaxPendingSaves, isValid \in BOOLEAN :
       ValidateApiKeyReturns(i, isValid)
  \/ ClearApiKey
  \/ \E newTab \in BOOLEAN : LoadApiKeyOnMount(newTab)

KeySpec == Init /\ [][KeyNext]_vars

\* ------------------------------------------------------------------------
\* Vocabulary of the properties
\* ------------------------------------------------------------------------

\* the index of every document that can be uploaded
IndexOfDocument == [doc \in Documents |-> BuildTextIndex(doc)]

\* the fragments an index holds for a page
FragmentsOn(index, page) ==
  {index[i] : i \in {j \in DOMAIN index : index[j].pageNum = page}}

\* the raw texts of a page's fragments, in the order of their itemIndex
FragmentTexts(index, page) ==
  LET fragments == FragmentsOn(index, page)
  IN  [k \in 1..Cardinality(fragments) |->
         (CHOOSE t \in fragments : t.itemIndex = k - 1).text]

\* the page's fragments joined with single spaces, lowercased
PageText(index, page) == ToLowerCase(JoinWithSpace(FragmentTexts(index, page)))

\* lowercased, trimmed, internal whitespace runs collapsed to one space
Normalized(query) == Trim(CollapseWhitespace(ToLowerCase(query)))

\* the 0-based positions at which needle occurs in text
Occurrences(text, needle) ==
  {i \in 0..(Len(text) - Len(needle)) :
     SubSeq(text, i + 1, i + Len(needle)) = needle}

Leftmost(positions) == CHOOSE i \in positions : \A j \in positions : i <= j

\* the itemIndex of every fragment of the page with a character in the
\* range [from, to) of the page text; a fragment's place in the page text
\* is its place in the document text less that of the page's first fragment
Overlapped(index, page, from, to) ==
  LET fragments == FragmentsOn(index, page)
      base == (CHOOSE t \in fragments : t.itemIndex = 0).charStart
  IN  {t.itemIndex : t \in
         {u \in fragments :
            \E pos \in from..(to - 1) :
               u.charStart - base <= pos /\ pos < u.charEnd - base}}

\* digits, optionally with one decimal point
IsPureNumber(s) ==
  /\ s # <<>>
  /\ s[1] \in Digits
  /\ \A i \in DOMAIN s : s[i] \in Digits \cup {"."}
  /\ Cardinality({i \in DOMAIN s : s[i] = "."}) <= 1

\* the latest search: its query, hint page and result
Query == lastSearch.query

HintPage == lastSearch.hintPage

Result == lastSearch.result

\* the fragments the search's occurrence overlaps: those of the leftmost
\* occurrence of the normalized query in the hint page's text
MatchedFragments ==
  LET nq  == Normalized(Query)
      occ == Occurrences(PageText(textIndex, HintPage), nq)
  IN  IF occ = {} THEN {}
      ELSE Overlapped(textIndex, HintPage, Leftmost(occ),
                      Leftmost(occ) + Len(nq))

\* the normalized query is a substring of the hint page's text
QueryOnHintPage ==
  Occurrences(PageText(textIndex, HintPage), Normalized(Query)) # {}

Ascending(indices) ==
  \A i \in 1..(Len(indices) - 1) : indices[i] < indices[i + 1]

\* Scenario A: the page and the quotation of the worked example
ScenarioPage ==
  << <<"S","a","m","p","l","e">>, <<"s","i","z","e">>, <<"w","a","s">>,
     <<"4","2">>, <<"p","a","t","i","e","n","t","s">>,
     <<"t","o","t","a","l",".">> >>

ScenarioQuery ==
  <<"s","i","z","e"," ","w","a","s"," ","4","2"," ",
    "p","a","t","i","e","n","t","s">>

\* ------------------------------------------------------------------------
\* C1  exact containment
\* ------------------------------------------------------------------------

\* the case of C1: a query of at least 12 characters, not a pure number,
\* whose normalized form is in the hint page's text, the occurrence
\* overlapping at most 5 fragments
C1_Case ==
  /\ lastSearch.called
  /\ FragmentsOn(textIndex, HintPage) # {}
  /\ Len(Query) >= MinQueryLength
  /\ ~IsPureNumber(Trim(Query))
  /\ QueryOnHintPage
  /\ Cardinality(MatchedFragments) <= MaxMatchItems

\* a match with exactMatch = true, confidence 1.0 and non-empty, ascending,
\* valid itemIndices; the worked example gives 1..4
C1_Match ==
  /\ Result # Null
  /\ Result.exactMatch
  /\ Result.confidence = 1
  /\ Len(Result.itemIndices) > 0
  /\ Ascending(Result.itemIndices)
  /\ \A i \in DOMAIN Result.itemIndices :
       \E t \in FragmentsOn(textIndex, HintPage) :
          t.itemIndex = Result.itemIndices[i]
  /\ (FragmentTexts(textIndex, HintPage) = ScenarioPage
        /\ Query = ScenarioQuery)
       => Result.itemIndices = <<1, 2, 3, 4>>

C2_LengthFloor ==
  (lastSearch.called /\ Len(Query) < MinQueryLength) => Result = Null

\* a query one character under the floor that stands verbatim on its page
C2_Witness ==
  /\ lastSearch.called
  /\ Len(Query) = MinQueryLength - 1
  /\ Occurrences(JoinWithSpace(FragmentTexts(textIndex, HintPage)), Query) # {}
  /\ Result = Null

\* ------------------------------------------------------------------------
\* C3  numeric rejection
\* ------------------------------------------------------------------------

\* C3: a query whose trimmed text is a pure number (digits, optionally with
\* one decimal point), of any length, gets null even when the hint page
\* holds that number.
C3_NumericRejection ==
  (lastSearch.called /\ IsPureNumber(Trim(Query))) => Result = Null

\* a number with a decimal point, of 12 characters or more, padded with
\* whitespace, that stands on the hint page
C3_Witness ==
  /\ lastSearch.called
  /\ IsPureNumber(Trim(Query))
  /\ Len(Trim(Query)) >= MinQueryLength
  /\ Trim(Query) # Query
  /\ \E i \in DOMAIN Query : Query[i] = "."
  /\ Occurrences(PageText(textIndex, HintPage), Trim(Query)) # {}
  /\ Result = Null

\* ------------------------------------------------------------------------
\* C4  no hint page
\* ------------------------------------------------------------------------

\* C4: with an absent hint page the result is null for every query and every
\* text index, even when the query stands verbatim on an indexed page.
C4_NoHintPage ==
  (lastSearch.called /\ HintPage = NoPage) => Result = Null

\* no hint page, and a query of 12 characters or more, not a number, that
\* stands on page 1 of the index within 5 fragments
C4_Witness ==
  /\ lastSearch.called
  /\ HintPage = NoPage
  /\ Len(Query) >= MinQueryLength
  /\ ~IsPureNumber(Trim(Query))
  /\ Normalized(Query) # <<>>
  /\ LET occ == Occurrences(PageText(textIndex, 1), Normalized(Query))
     IN  /\ occ # {}
         /\ Cardinality(Overlapped(textIndex, 1, Leftmost(occ),
                                   Leftmost(occ) + Len(Normalized(Query))))
              <= MaxMatchItems
  /\ Result = Null

\* ------------------------------------------------------------------------
\* C5  span ceiling
\* ------------------------------------------------------------------------

\* C5: when the normalized query is in the hint page's text and the matched
\* occurrence overlaps more than 5 fragments, the result is null.
C5_SpanCeiling ==
  (/\ lastSearch.called
   /\ QueryOnHintPage
   /\ Cardinality(MatchedFragments) > MaxMatchItems) => Result = Null

\* a quotation present on the page over exactly 6 fragments, long enough and
\* not a number
C5_Witness ==
  /\ lastSearch.called
  /\ Len(Query) >= MinQueryLength
  /\ ~IsPureNumber(Trim(Query))
  /\ QueryOnHintPage
  /\ Cardinality(MatchedFragments) = MaxMatchItems + 1
  /\ Result = Null

\* ------------------------------------------------------------------------
\* C6  shape of a match
\* ------------------------------------------------------------------------

QueryOnOtherPage ==
  \E i \in DOMAIN textIndex :
     /\ textIndex[i].pageNum # HintPage
     /\ Occurrences(PageText(textIndex, textIndex[i].pageNum),
                    Normalized(Query)) # {}

\* the documents whose index holds the same fragments for the hint page
DocumentsAgreeingOnHintPage ==
  {doc \in Documents :
     FragmentTexts(IndexOfDocument[doc], HintPage)
       = FragmentTexts(textIndex, HintPage)}

\* C7: the result depends only on the fragments indexed for the hint page:
\* every text index that agrees with the current one on that page gives the
\* same result, and a query that stands only on other pages gets null.
C7_NoPageHopping ==
  lastSearch.called =>
    /\ \A doc \in DocumentsAgreeingOnHintPage :
         searchForCitedText(IndexOfDocument[doc], Query, HintPage) = Result
    /\ (QueryOnOtherPage /\ ~QueryOnHintPage) => Result = Null

\* a matchable quotation that stands on another page only, searched on a
\* page that has fragments and that another, different index agrees on
C7_Witness ==
  /\ lastSearch.called
  /\ Len(Query) >= MinQueryLength
  /\ ~IsPureNumber(Trim(Query))
  /\ Normalized(Query) # <<>>
  /\ FragmentsOn(textIndex, HintPage) # {}
  /\ QueryOnOtherPage
  /\ ~QueryOnHintPage
  /\ \E doc \in DocumentsAgreeingOnHintPage : IndexOfDocument[doc] # textIndex
  /\ Result = Null

\* ------------------------------------------------------------------------
\* C8  silent no-match
\* ------------------------------------------------------------------------

\* the mapping's page has no fragment in the index
OnUnindexedPage(mapping) == FragmentsOn(textIndex, mapping.page) = {}

\* C8: for a page without indexed fragments the search returns null, and
\* the highlight map is the one built from the other mappings alone: the
\* mapping is left out and the entries of the others are unaffected.
C8_SilentNoMatch ==
  /\ \A i \in DOMAIN mappings :
       OnUnindexedPage(mappings[i]) =>
         searchForCitedText(textIndex, SearchQueryOf(mappings[i]),
                            mappings[i].page) = Null
  /\ preciseHighlights =
       RebuildHighlights(textIndex,
                         SelectSeq(mappings, LAMBDA m : ~OnUnindexedPage(m)))
  /\ \A key \in DOMAIN preciseHighlights :
       FragmentsOn(textIndex, key[1]) # {}

\* a mapping on page 11 of a document longer than the indexing cap, next to
\* a mapping that is highlighted
C8_Witness ==
  /\ Len(pdfDoc) > MaxIndexedPages
  /\ \E i \in DOMAIN mappings :
       /\ mappings[i].page = MaxIndexedPages + 1
       /\ OnUnindexedPage(mappings[i])
       /\ i < Len(mappings)
  /\ preciseHighlights # EmptyHighlights

\* ------------------------------------------------------------------------
\* C9  index offsets
\* ------------------------------------------------------------------------

\* C9: every fragment has charEnd = charStart + length(text), the first
\* fragment starts at 0 and every next fragment, in index order, starts at
\* the previous charEnd + 1, for empty fragments and across pages too.
C9_IndexOffsets ==
  \A i \in DOMAIN textIndex :
     /\ textIndex[i].charEnd = textIndex[i].charStart + Len(textIndex[i].text)
     /\ i = 1 => textIndex[i].charStart = 0
     /\ i > 1 => textIndex[i].charStart = textIndex[i - 1].charEnd + 1

\* an index with an empty fragment followed by another, and with a fragment
\* of a later page following the last of the page before
C9_Witness ==
  /\ \E i \in 1..(Len(textIndex) - 1) : textIndex[i].text = <<>>
  /\ \E i \in 1..(Len(textIndex) - 1) :
       /\ textIndex[i].pageNum # textIndex[i + 1].pageNum
       /\ textIndex[i + 1].charStart > 0

\* ------------------------------------------------------------------------
\* C10  index structure
\* ------------------------------------------------------------------------

\* the places of a page's fragments in the index, and the k-th of them
PlacesOf(page) == {i \in DOMAIN textIndex : textIndex[i].pageNum = page}

KthPlaceOf(page, k) ==
  CHOOSE i \in PlacesOf(page) :
     Cardinality({j \in PlacesOf(page) : j < i}) = k - 1

\* C10: for every processed page with n text items the index holds exactly
\* n fragments, in renderer order, with itemIndex 0..n-1 local to the page;
\* empty and whitespace-only items are kept; no two fragments share
\* (pageNum, itemIndex).
C10_IndexStructure ==
  /\ \A page \in 1..Min(Len(pdfDoc), MaxIndexedPages) :
       /\ Cardinality(PlacesOf(page)) = Len(pdfDoc[page])
       /\ \A k \in 1..Len(pdfDoc[page]) :
            /\ textIndex[KthPlaceOf(page, k)].itemIndex = k - 1
            /\ textIndex[KthPlaceOf(page, k)].text = pdfDoc[page][k]
  /\ \A i, j \in DOMAIN textIndex :
       (/\ textIndex[i].pageNum = textIndex[j].pageNum
        /\ textIndex[i].itemIndex = textIndex[j].itemIndex) => i = j

\* a two-page document with an empty and a whitespace-only item is indexed
C10_Witness ==
  /\ Len(pdfDoc) >= 2
  /\ \E i \in DOMAIN textIndex : textIndex[i].text = <<>>
  /\ \E i \in DOMAIN textIndex : textIndex[i].text = <<" ">>
  /\ \E i \in DOMAIN textIndex :
       textIndex[i].pageNum = 2 /\ textIndex[i].itemIndex = 0


\* ------------------------------------------------------------------------
\* C11  highlight entries of one mapping
\* ------------------------------------------------------------------------

\* the text a mapping is searched by: its cited text, else its display text
QueryUsed(mapping) ==
  IF mapping.citedText # <<>> THEN mapping.citedText ELSE mapping.text

\* the match of a mapping's query on its page, Null for a query too short
\* to be searched
MatchOf(index, mapping) ==
  IF Len(QueryUsed(mapping)) < 2 THEN Null
  ELSE searchForCitedText(index, QueryUsed(mapping), mapping.page)

\* the keys (page, itemIndex) of the fragments a mapping matches
KeysOf(index, mapping) ==
  LET match == MatchOf(index, mapping)
  IN  IF match = Null THEN {}
      ELSE {<<match.pageNum, match.itemIndices[i]>> :
              i \in DOMAIN match.itemIndices}

\* the entry a mapping writes at a key
EntryOf(mapping, key) ==
  [pageNum   |-> key[1],
   itemIndex |-> key[2],
   path      |-> mapping.path,
   verified  |-> mapping.verified,
   citedText |-> QueryUsed(mapping)]

\* mapping i shares no fragment with another mapping
SharesNoFragment(i) ==
  \A j \in DOMAIN mappings :
     j # i => KeysOf(textIndex, mappings[i]) \cap KeysOf(textIndex, mappings[j]) = {}

\* C11: a mapping whose query matches k fragments (1 <= k <= 5) and that
\* shares none of them has exactly k entries, at the keys (page, itemIndex)
\* of the matched fragments, each with the mapping's path, verified flag and
\* the text used as the query; a mapping whose match is null contributes no
\* entry: every key of the map is a matched fragment of some mapping.
C11_EntriesOfOneMapping ==
  /\ \A i \in DOMAIN mappings :
       LET keys == KeysOf(textIndex, mappings[i])
       IN  (keys # {} /\ SharesNoFragment(i)) =>
             /\ Cardinality(keys) \in 1..MaxMatchItems
             /\ keys \subseteq DOMAIN preciseHighlights
             /\ \A key \in keys :
                  preciseHighlights[key] = EntryOf(mappings[i], key)
             /\ Cardinality({key \in DOMAIN preciseHighlights :
                               /\ key[1] = mappings[i].page
                               /\ preciseHighlights[key].path = mappings[i].path})
                  = Cardinality(keys)
  /\ DOMAIN preciseHighlights =
       UNION {KeysOf(textIndex, mappings[i]) : i \in DOMAIN mappings}

\* two mappings without a common fragment are highlighted, one over 5
\* fragments by its cited text and one over 2 by its display text
C11_Witness ==
  /\ Len(mappings) = 2
  /\ SharesNoFragment(1)
  /\ \E i, j \in DOMAIN mappings :
       /\ Cardinality(KeysOf(textIndex, mappings[i])) = MaxMatchItems
       /\ mappings[i].citedText # <<>>
       /\ Cardinality(KeysOf(textIndex, mappings[j])) = 2
       /\ mappings[j].citedText = <<>>
  /\ Cardinality(DOMAIN preciseHighlights) = MaxMatchItems + 2

\* ------------------------------------------------------------------------
\* C12  last writer wins
\* ------------------------------------------------------------------------

\* the places in the input of the mappings that match the fragment at key
WritersOf(key) ==
  {i \in DOMAIN mappings : key \in KeysOf(textIndex, mappings[i])}

Latest(places) == CHOOSE i \in places : \A j \in places : j <= i

\* C12: the entry at every key is the one of the latest mapping, in input
\* order, that matches the fragment: a shared fragment carries the later
\* mapping's path, verified flag and cited text, a fragment matched by the
\* earlier mapping alone keeps the earlier mapping's entry.
C12_LastWriterWins ==
  \A key \in DOMAIN preciseHighlights :
     /\ WritersOf(key) # {}
     /\ preciseHighlights[key] = EntryOf(mappings[Latest(WritersOf(key))], key)

\* two mappings with different paths and verified flags share a fragment,
\* and the earlier one matches a fragment of its own as well
C12_Witness ==
  /\ Len(mappings) = 2
  /\ mappings[1].path # mappings[2].path
  /\ mappings[1].verified # mappings[2].verified
  /\ \E key \in DOMAIN preciseHighlights : WritersOf(key) = {1, 2}
  /\ \E key \in DOMAIN preciseHighlights : WritersOf(key) = {1}


\* ------------------------------------------------------------------------
\* C13  choice of the search query
\* ------------------------------------------------------------------------

\* the query C13 names: citedText when it has 2 characters or more,
\* otherwise the display text
NamedQuery(mapping) ==
  IF Len(mapping.citedText) >= 2 THEN mapping.citedText ELSE mapping.text

\* the fragments the named query matches; none when neither citedText nor
\* the display text has 2 characters
NamedKeys(index, mapping) ==
  LET match == searchForCitedText(index, NamedQuery(mapping), mapping.page)
  IN  IF Len(NamedQuery(mapping)) < 2 \/ match = Null THEN {}
      ELSE {<<match.pageNum, match.itemIndices[i]>> :
              i \in DOMAIN match.itemIndices}

MappingFrom(mapping, doc) == OnPage(mapping.text, doc, mapping.page)

\* C14: whenever the highlight map has been rebuilt, the text index is the
\* index of the document on display and every mapping that feeds the map
\* was taken from that document; so it is after a paper switch and after an
\* upload.
C14_SameDocument ==
  pdfDoc # NoDocument =>
    /\ textIndex = BuildTextIndex(pdfDoc)
    /\ \A i \in DOMAIN mappings : MappingFrom(mappings[i], pdfDoc)

\* ------------------------------------------------------------------------
\* C15  full rebuild
\* ------------------------------------------------------------------------

\* C15: after every change of the text index or of the extraction results
\* the highlight map is buildPreciseHighlights of the current mappings over
\* the current index, the mappings being those of the current results; it
\* holds nothing else, and it is empty when the index is empty or there are
\* no mappings.
C15_FullRebuild ==
  /\ mappings = getMappings(results)
  /\ preciseHighlights = buildPreciseHighlights(textIndex, getMappings(results))
  /\ (textIndex = <<>> \/ mappings = <<>>) =>
       preciseHighlights = EmptyHighlights

\* a manual mapping, not saved yet, is highlighted over the results of a
\* stored paper
C15_Witness ==
  /\ ~results.isNull
  /\ results.extracted_data # <<>>
  /\ preciseHighlights # EmptyHighlights
  /\ currentPaperId \in DOMAIN papers
  /\ papers[currentPaperId].extractionResults # results

\* ------------------------------------------------------------------------
\* C18  undo reverts a saved change
\* ------------------------------------------------------------------------

\* the latest save replaced the stored results R0 of the current paper by
\* the different results R1 that are still on display
SavedChange ==
  /\ lastSave.saved
  /\ lastSave.paperId = currentPaperId
  /\ ~lastSave.before.isNull
  /\ lastSave.before # results
  /\ currentPaperId \in DOMAIN papers
  /\ papers[currentPaperId].extractionResults = results

\* C18: an undo after a saved change from R0 to R1 sets the results on
\* display and the stored results of the paper back to R0 and removes the
\* history entry of the change.
C18_UndoRevertsSavedChange ==
  [][(SavedChange /\ HandleUndo) =>
       /\ results' = lastSave.before
       /\ papers'[currentPaperId].extractionResults = lastSave.before
       /\ Len(history') = Len(history) - 1]_vars

\* ------------------------------------------------------------------------
\* C20  stored papers are kept apart
\* ------------------------------------------------------------------------

\* the file on display is an uploaded PDF that no stored paper holds
NewlyUploaded ==
  /\ file # NoDocument
  /\ pdfBase64 = Base64(file)
  /\ \A id \in DOMAIN papers : papers[id].pdfBase64 # pdfBase64

\* C20: saving a newly uploaded PDF stores it under an id of its own, which
\* becomes the current one, and leaves the record of every paper stored
\* before as it was.
C20_PapersKeptApart ==
  [][(NewlyUploaded /\ SaveCurrentPaper) =>
       /\ \E id \in (DOMAIN papers') \ (DOMAIN papers) :
            /\ papers'[id].pdfBase64 = pdfBase64
            /\ currentPaperId' = id
       /\ \A id \in DOMAIN papers :
            id \in DOMAIN papers' /\ papers'[id] = papers[id]]_vars

\* ------------------------------------------------------------------------
\* C16: field path inference is an ordered rule table, first match wins
\* ------------------------------------------------------------------------

\* a conjunction of keywords: all of has occur, none of lacks occurs
Keywords(has, lacks) == [has |-> has, lacks |-> lacks]

Rule(path, alternatives) == [path |-> path, alternatives |-> alternatives]

\* the rule table in its fixed order: a rule holds when one of its
\* alternatives holds
InferenceRules ==
  << Rule("studyId.citation",
          {Keywords({"author"}, {}), Keywords({"citation"}, {})}),
     Rule("studyId.doi",
          {Keywords({"doi"}, {})}),
     Rule("studyId.pmid",
          {Keywords({"pmid"}, {})}),
     Rule("studyId.journal",
          {Keywords({"journal"}, {})}),
     Rule("studyId.year",
          {Keywords({"year"}, {}), Keywords({"published"}, {})}),
     Rule("studyId.country",
          {Keywords({"country"}, {}), Keywords({"countries"}, {})}),
     Rule("baseline.sampleSize.totalN",
          {Keywords({"sample size"}, {}),
           Keywords({"total n"}, {}),
           Keywords({"patients enrolled"}, {})}),
     Rule("baseline.sampleSize.surgicalN",
          {Keywords({"surgical", "n "}, {})}),
     Rule("baseline.sampleSize.controlN",
          {Keywords({"control", "n "}, {})}),
     Rule("baseline.age.mean",
          {Keywords({"age", "mean"}, {})}),
     Rule("baseline.age.median",
          {Keywords({"age", "median"}, {})}),
     Rule("baseline.gender.maleN",
          {Keywords({"male"}, {})}),
     Rule("baseline.gender.femaleN",
          {Keywords({"female"}, {})}),
     Rule("baseline.clinicalScores.nihssMeanOrMedian",
          {Keywords({"nihss"}, {})}),
     Rule("baseline.clinicalScores.gcsMeanOrMedian",
          {Keywords({"gcs"}, {})}),
     Rule("baseline.clinicalScores.prestrokeMRS",
          {Keywords({"mrs"}, {"outcome"})}),
     Rule("picoT.population",
          {Keywords({"population"}, {}),
           Keywords({"inclusion"}, {}),
           Keywords({"eligib"}, {})}),
     Rule("picoT.intervention",
          {Keywords({"intervention"}, {"type"})}),
     Rule("picoT.comparator",
          {Keywords({"comparator"}, {}), Keywords({"control group"}, {})}),
     Rule("picoT.outcomesMeasured",
          {Keywords({"outcome", "measure"}, {})}),
     Rule("picoT.timingFollowUp",
          {Keywords({"follow", "up"}, {})}),
     Rule("picoT.studyType",
          {Keywords({"study type"}, {}), Keywords({"design"}, {})}),
     Rule("outcomes.mortality",
          {Keywords({"mortality"}, {}), Keywords({"death"}, {})}),
     Rule("outcomes.mrs",
          {Keywords({"mrs", "outcome"}, {})}),
     Rule("complications.items",
          {Keywords({"complication"}, {}), Keywords({"adverse"}, {})}) >>

RuleHolds(rule, lowered) ==
  \E alt \in rule.alternatives :
    /\ \A k \in alt.has : includes(lowered, k)
    /\ \A k \in alt.lacks : ~includes(lowered, k)

\* the rules that hold on the lower-cased context of the latest call
RulesHolding ==
  {k \in DOMAIN InferenceRules :
     RuleHolds(InferenceRules[k], ToLowerCase(lastInfer.context))}

FirstRuleHolding == CHOOSE k \in RulesHolding : \A j \in RulesHolding : k <= j

\* C16: for every context text inferFieldPath returns a path: the path of
\* the first rule of the table, in its fixed order, whose keyword predicate
\* holds on the lower-cased text, and 'extractionLog.extracted_data' exactly
\* when no rule holds.
C16_FirstMatchWins ==
  lastInfer.called =>
    /\ RulesHolding # {} =>
          lastInfer.result = InferenceRules[FirstRuleHolding].path
    /\ RulesHolding = {} <=>
          lastInfer.result = "extractionLog.extracted_data"

\* a context in capitals on which two rules hold, answered with the path of
\* the earlier one
C16_Witness ==
  /\ lastInfer.called
  /\ lastInfer.context # ToLowerCase(lastInfer.context)
  /\ Cardinality(RulesHolding) >= 2
  /\ lastInfer.result = InferenceRules[FirstRuleHolding].path
  /\ lastInfer.result # "extractionLog.extracted_data"

\* ------------------------------------------------------------------------
\* C19: the fallback cascade of runExtraction
\* ------------------------------------------------------------------------

\* the strategies open to a call, in the order of the cascade: Search
\* Results with page texts, two-pass with a base64 PDF, single-pass always
StrategiesOpen ==
  (IF UsesSearchResults(extraction.pageTexts) THEN <<"searchResults">>
   ELSE <<>>)
  \o (IF UsesTwoPass(extraction.pdfBase64) THEN <<"twoPass">> ELSE <<>>)
  \o <<"singlePass">>

\* the strategies of the call that have failed so far
StrategiesFailed ==
  {extraction.outcomes[i].strategy :
     i \in {j \in DOMAIN extraction.outcomes : extraction.outcomes[j].threw}}

\* the strategies of the call that have succeeded so far, with their result
Successes ==
  {i \in DOMAIN extraction.outcomes : ~extraction.outcomes[i].threw}

LastInvoked == extraction.invoked[Len(extraction.invoked)]

\* C19: the strategies are invoked in the fixed order Search Results (only
\* with page texts), two-pass (only with a base64 PDF), single-pass; a
\* strategy is invoked only after every strategy before it has failed, and
\* a failed one is followed by the next; the call returns the result of
\* the first strategy that succeeds and invokes none after it; it throws
\* only when the single pass has failed.
C19_FallbackCascade ==
  LET tried == extraction.invoked
  IN  /\ Len(tried) <= Len(StrategiesOpen)
      /\ tried = SubSeq(StrategiesOpen, 1, Len(tried))
      /\ \A i \in 1..(Len(tried) - 1) : tried[i] \in StrategiesFailed
      /\ extraction.pc \in {"searchResults", "pass1", "singlePass"} =>
            /\ \A i \in DOMAIN tried : tried[i] \in StrategiesFailed
            /\ Len(tried) < Len(StrategiesOpen)
            /\ StrategiesOpen[Len(tried) + 1] =
                 (IF extraction.pc = "pass1" THEN "twoPass"
                  ELSE extraction.pc)
      /\ extraction.pc = "returned" =>
            /\ tried # <<>>
            /\ LastInvoked \notin StrategiesFailed
            /\ Cardinality(Successes) = 1
            /\ \A i \in Successes :
                 /\ extraction.outcomes[i].strategy = LastInvoked
                 /\ extraction.value = extraction.outcomes[i].value
      /\ extraction.pc = "thrown" =>
            /\ tried = StrategiesOpen
            /\ "singlePass" \in StrategiesFailed
            /\ Successes = {}

\* both passes of the two-pass strategy fail in turn after the Search
\* Results strategy has failed, and the single pass returns its form
C19_Witness ==
  /\ extraction.pc = "returned"
  /\ extraction.invoked = <<"searchResults", "twoPass", "singlePass">>
  /\ StrategiesFailed = {"searchResults", "twoPass"}
  /\ ~extraction.value.isNull

\* ------------------------------------------------------------------------
\* C24  the length floor and the normalized query
\* ------------------------------------------------------------------------

\* C24: whenever the search returns a match, the normalized query that was
\* searched for has at least 12 characters, so a short citation padded with
\* whitespace produces no highlight.
C24_FloorOnNormalizedQuery ==
  (lastSearch.called /\ Result # Null) =>
    Len(Normalized(Query)) >= MinQueryLength

\* ------------------------------------------------------------------------
\* C23  first occurrence only
\* ------------------------------------------------------------------------

\* where the k-th fragment of a page starts in the page's text: every
\* fragment takes its length plus one separator character
RECURSIVE SpanStart(_, _)
SpanStart(texts, k) ==
  IF k = 1 THEN 0 ELSE SpanStart(texts, k - 1) + Len(texts[k - 1]) + 1

\* the itemIndex of the fragments of the hint page whose span overlaps the
\* occurrence of the normalized query at position from
FragmentsAt(from) ==
  LET texts == FragmentTexts(textIndex, HintPage)
      to    == from + Len(Normalized(Query))
  IN  {k - 1 : k \in {j \in DOMAIN texts :
                        /\ SpanStart(texts, j) + Len(texts[j]) > from
                        /\ SpanStart(texts, j) < to}}

\* the places of the normalized query in the hint page's text
QueryPlaces == Occurrences(PageText(textIndex, HintPage), Normalized(Query))

\* the normalized query, not empty, stands more than once on the hint page
RepeatedOnHintPage ==
  /\ lastSearch.called
  /\ Normalized(Query) # <<>>
  /\ Cardinality(QueryPlaces) > 1

\* C23: when the normalized query occurs more than once in the hint page's
\* text, the itemIndices returned are exactly those of the fragments whose
\* span overlaps the leftmost occurrence, and the result is null when the
\* leftmost occurrence overlaps more than 5 fragments, whatever a later
\* occurrence overlaps.
C23_FirstOccurrenceOnly ==
  RepeatedOnHintPage =>
    /\ Result # Null =>
         {Result.itemIndices[i] : i \in DOMAIN Result.itemIndices}
           = FragmentsAt(Leftmost(QueryPlaces))
    /\ Cardinality(FragmentsAt(Leftmost(QueryPlaces))) > MaxMatchItems =>
         Result = Null

\* a quotation matched at its leftmost place while a later place lies in
\* other fragments
C23_Witness ==
  /\ RepeatedOnHintPage
  /\ Result # Null
  /\ \E place \in QueryPlaces :
       FragmentsAt(place) \cap FragmentsAt(Leftmost(QueryPlaces)) = {}

\* a quotation whose leftmost place overlaps six fragments and whose later
\* place lies within one
C23_CeilingOnLeftmost ==
  /\ RepeatedOnHintPage
  /\ Result = Null
  /\ Len(Query) >= MinQueryLength
  /\ Cardinality(FragmentsAt(Leftmost(QueryPlaces))) > MaxMatchItems
  /\ \E place \in QueryPlaces : Cardinality(FragmentsAt(place)) = 1

\* ------------------------------------------------------------------------
\* C25  a manual mapping is highlighted under the chosen field
\* ------------------------------------------------------------------------

\* the selection has at least 12 characters and stands on its page of the
\* document on display, whose index is the one in use
SelectionOnDisplay(selectedText) ==
  /\ pdfDoc # NoDocument
  /\ textIndex = BuildTextIndex(pdfDoc)
  /\ Len(selectedText.text) >= MinQueryLength
  /\ OnPage(selectedText.text, pdfDoc, selectedText.page)

\* the keys of the fragments the selected text covers
SelectionKeys(selectedText) ==
  LET match == searchForCitedText(textIndex, selectedText.text,
                                  selectedText.page)
  IN  IF match = Null THEN {}
      ELSE {<<match.pageNum, match.itemIndices[i]>> :
              i \in DOMAIN match.itemIndices}

\* C25: after mapSelectedToField maps a selected text of at least 12
\* characters, present on its page, to field path P and the highlight map
\* is rebuilt, every highlight entry covering the fragments of that text
\* carries path P.
C25_ManualMappingUnderField ==
  [][\A path \in ManualPaths, selectedText \in Selections(pdfDoc) :
       (SelectionOnDisplay(selectedText)
          /\ MapSelectedToField(path, selectedText)) =>
         /\ SelectionKeys(selectedText) # {}
         /\ \A key \in SelectionKeys(selectedText) :
              /\ key \in DOMAIN preciseHighlights'
              /\ preciseHighlights'[key].path = path]_vars

\* ------------------------------------------------------------------------
\* C28  no inference rule is shadowed
\* ------------------------------------------------------------------------

\* the paths of the rule table
RulePaths == {InferenceRules[k].path : k \in DOMAIN InferenceRules}

\* the paths inferFieldPath returns for no context text
PathsNeverInferred ==
  {path \in RulePaths :
     \A context \in InferContexts : inferFieldPath(context) # path}

\* the texts made of the keywords of one alternative of a rule and of
\* nothing else
KeywordTexts(alt) ==
  IF Cardinality(alt.has) = 1
    THEN {Chars[k] : k \in alt.has}
    ELSE {JoinWithSpace(<<Chars[pair[1]], Chars[pair[2]]>>) :
            pair \in {p \in alt.has \X alt.has : p[1] # p[2]}}

\* the rules one of whose alternatives the context of the latest call spells
RulesSpelled ==
  {k \in DOMAIN InferenceRules :
     \E alt \in InferenceRules[k].alternatives :
       lastInfer.context \in KeywordTexts(alt)}

\* C28: no rule of the table is shadowed: every path of the table is
\* returned for some context text, the text made of the rule's own keywords
\* being one; in particular a context mentioning 'female' and no other
\* keyword is assigned 'baseline.gender.femaleN'.
C28_NoRuleShadowed ==
  lastInfer.called =>
    \A k \in RulesSpelled : lastInfer.result = InferenceRules[k].path

\* what holds in the place of C28: every text with 'female' has 'male', so
\* a call with such a context never returns the path of the rule of 'female',
\* and that path is the only one no call returns
C28_FemaleShadowedByMale ==
  /\ includes(Chars["female"], "male")
  /\ PathsNeverInferred = {"baseline.gender.femaleN"}
  /\ lastInfer.called /\ includes(ToLowerCase(lastInfer.context), "female")
       => lastInfer.result # "baseline.gender.femaleN"

\* the rules other than the rule of 'female' are not shadowed: the call on
\* their own keywords returns their path
C28_OtherRulesReached ==
  lastInfer.called =>
    \A k \in RulesSpelled :
      InferenceRules[k].path # "baseline.gender.femaleN" =>
        lastInfer.result = InferenceRules[k].path

\* ------------------------------------------------------------------------
\* C30  an empty extraction is no success
\* ------------------------------------------------------------------------

\* C30: runExtraction never returns the empty object as the result of the
\* Search Results strategy: when the response of that strategy holds no
\* ExtractionForm tool output, the call goes on to the next strategy or
\* throws.
C30_NoEmptySuccess ==
  (extraction.pc = "returned" /\ LastInvoked = "searchResults") =>
    extraction.value # EmptyResults

\* ------------------------------------------------------------------------
\* C21  API key storage follows the chosen option
\* ------------------------------------------------------------------------

\* C21: when saveApiKey has succeeded with storage type T, the trimmed key
\* is in localStorage exactly when T is 'persistent' and in sessionStorage
\* exactly when T is 'session', in neither for 'none'; the key is never in
\* both storages at once; when clearApiKey has run, the key is in neither
\* storage and not in memory.
C21_KeyStorageFollowsOption ==
  /\ ~(localStorage.present /\ sessionStorage.present)
  /\ lastKeyOp.op = "saved" =>
       /\ localStorage.present <=> lastKeyOp.storageType = "persistent"
       /\ sessionStorage.present <=> lastKeyOp.storageType = "session"
       /\ localStorage.present => localStorage.value = Trim(lastKeyOp.key)
       /\ sessionStorage.present => sessionStorage.value = Trim(lastKeyOp.key)
  /\ lastKeyOp.op = "clearApiKey" =>
       /\ ~localStorage.present
       /\ ~sessionStorage.present
       /\ apiKey = <<>>

\* a key pasted with blanks around it is saved for the session while a call
\* made under 'persistent' is still being validated; that call succeeds
\* next and the key moves from the session storage to localStorage
C21_Witness ==
  /\ lastKeyOp.op = "saved"
  /\ lastKeyOp.storageType = "persistent"
  /\ lastKeyOp.key # Trim(lastKeyOp.key)
  /\ localStorage = Item(Trim(lastKeyOp.key))
  /\ ~sessionStorage.present
  /\ storageType = "session"
  /\ apiKeyStatus = "valid"

\* the key is cleared after it was loaded from the session storage on mount
C21_WitnessCleared ==
  /\ lastKeyOp.op = "clearApiKey"
  /\ apiKey = <<>>
  /\ storageType = "none"
  /\ pendingSaves # <<>>

\* ------------------------------------------------------------------------
\* C29  mapping extraction covers every located leaf
\* ------------------------------------------------------------------------

\* the nodes of the results in the order traverse visits them, each with its
\* dot-delimited key path: the elements of extractionLog.extracted_data by
\* their index
NodesOf(res) ==
  res.fields
    \o [i \in DOMAIN res.extracted_data |->
          [res.extracted_data[i] EXCEPT !.path = LogPaths[i]]]

\* the node carries a source_location with a page and a content value
LocatedLeaf(node) == node.page # NoPage /\ node.contentType # "undefined"

LocatedLeaves == SelectSeq(NodesOf(results), LocatedLeaf)

\* C29: getMappings yields exactly one mapping for every node of the results
\* with a source page and a content value, 0, false and '' included, in
\* traversal order: the mapping has the node's key path, page, verified flag
\* and cited text; nodes without a page yield none.
C29_EveryLocatedLeaf ==
  /\ Len(mappings) = Len(LocatedLeaves)
  /\ \A i \in DOMAIN mappings :
       /\ i \in DOMAIN LocatedLeaves
       /\ mappings[i].path = LocatedLeaves[i].path
       /\ mappings[i].page = LocatedLeaves[i].page
       /\ mappings[i].verified = LocatedLeaves[i].citation_verified
       /\ mappings[i].citedText = LocatedLeaves[i].cited_text

\* what holds in the place of C29: the mappings are those of the located
\* nodes whose content is truthy; a node with content 0, false or '' has
\* none
C29_LeavesWithTruthyContent ==
  LET leaves == SelectSeq(LocatedLeaves, Truthy)
  IN  /\ Len(mappings) = Len(leaves)
      /\ \A i \in DOMAIN mappings :
           /\ i \in DOMAIN leaves
           /\ mappings[i].path = leaves[i].path
           /\ mappings[i].page = leaves[i].page
           /\ mappings[i].verified = leaves[i].citation_verified
           /\ mappings[i].citedText = leaves[i].cited_text

\* ------------------------------------------------------------------------
\* C26  citations are attached per page
\* ------------------------------------------------------------------------

\* the citations of the latest enrichment whose source is the page
CitationsFrom(page) ==
  {lastEnrich.citations[i] :
     i \in {j \in DOMAIN lastEnrich.citations :
              lastEnrich.citations[j].source = PageSource(page)}}

\* C26: the enrichment leaves a field as it was, or attaches to a field
\* located on page p the cited_text of a citation whose source is page p and
\* marks it verified; it never attaches the text of a citation from another
\* page, and a field whose page has no citation stays without cited_text and
\* unverified.
C26_CitationsPerPage ==
  lastEnrich.called =>
    \A i \in DOMAIN lastEnrich.result.fields :
      LET before == lastEnrich.extraction.fields[i]
          after  == lastEnrich.result.fields[i]
      IN  \/ after = before
          \/ \E citation \in CitationsFrom(before.page) :
               after = [before EXCEPT
                          !.cited_text = citation.cited_text,
                          !.citation_verified = TRUE]

\* ------------------------------------------------------------------------
\* C22  the auto-save timer
\* ------------------------------------------------------------------------

\* auto-save is enabled and there are a file and results
AutoSaveDue == autoSaveEnabled /\ file # NoDocument /\ ~results.isNull

\* a pending timeout was armed in a render with the file and the results on
\* display
ArmedForCurrent(timer) ==
  timer.file = file /\ timer.results = results

\* C22: at any moment at most one auto-save timeout is pending, and a pending
\* timeout was armed for the file and the results on display while auto-save
\* is enabled and there are a file and results; a change of the results to
\* results that are due for auto-save leaves exactly the timeout armed for
\* them; and a timeout that fires stores the results on display, and never
\* while auto-save is disabled or there is no file or there are no results.
C22_AutoSaveTimer ==
  /\ [](/\ Len(autoSaveTimers) <= 1
        /\ \A i \in DOMAIN autoSaveTimers :
             ArmedForCurrent(autoSaveTimers[i]) /\ AutoSaveDue)
  /\ [][(results' # results /\ AutoSaveDue')
          => /\ Len(autoSaveTimers') = 1
             /\ autoSaveTimers'[1].results = results']_vars
  /\ [][AutoSave
          => /\ AutoSaveDue
             /\ lastSave'.paperId \in DOMAIN papers'
             /\ papers'[lastSave'.paperId].extractionResults = results]_vars

\* the timeout that is pending was armed for results the store does not
\* hold yet for the current paper: the results have changed since that paper
\* was saved
C22_Witness ==
  /\ Len(autoSaveTimers) = 1
  /\ currentPaperId \in DOMAIN papers
  /\ ~papers[currentPaperId].extractionResults.isNull
  /\ papers[currentPaperId].extractionResults # results

\* auto-save is disabled while a file and results are on display
C22_WitnessDisabled ==
  /\ ~autoSaveEnabled
  /\ file # NoDocument
  /\ ~results.isNull

\* ------------------------------------------------------------------------
\* C27  extraction results stay with their paper
\* ------------------------------------------------------------------------

\* runExtraction returns to startExtraction in this step
ExtractionReturns ==
  \E res \in ExtractionsOf(processing.pdfText) : RunExtractionReturns(res)

\* C27: when an extraction returns, the document on display is the one whose
\* text was sent for extraction, and a timeout the auto-save effect has armed
\* for the returned results saves them with the file of that document.
C27_ResultsStayWithPaper ==
  [][ExtractionReturns
       => /\ pdfDoc' = processing.pdfText
          /\ file' = processing.pdfText
          /\ \A i \in DOMAIN autoSaveTimers' :
               autoSaveTimers'[i].file = processing.pdfText]_vars

\* an extraction returns after the user has switched to another stored paper
C27_SwitchedInFlight ==
  /\ processing.isProcessing
  /\ pdfDoc # NoDocument
  /\ pdfDoc # processing.pdfText


====
